---- MODULE Spec2Model ----
(***************************************************************************)
(* Model of the test-summary-report core of ai-tsr-crewai:                 *)
(*   normalize_columns (tools.py), compute_metrics (tools.py) and          *)
(*   QualityGateEvaluator.evaluate_release_recommendation                  *)
(*   (quality_gates.py), with the profiles ConfigManager loads.            *)
(*                                                                         *)
(* Text is a tuple of one-character strings, so that lower() and strip()   *)
(* are computed.  Pass rates and min_pass_rate thresholds are in           *)
(* hundredths of a percent (pass_pct is rounded to two decimals), so       *)
(* 9500 stands for 95.00.                                                  *)
(***************************************************************************)
EXTENDS Integers, Sequences, FiniteSets, TLC

VARIABLES
    raw_data,        \* main: the DataFrame read_execution_file returned
    normalize_out,   \* the call of normalize_columns
    normalized_data, \* main: the canonical DataFrame the run holds
    handed_in,       \* the DataFrame as it was when compute_metrics was called
    metrics_out,     \* the call of compute_metrics and the dictionary it returned
    quality_gates,   \* QualityGateEvaluator.quality_gates: the loaded profiles
    gate,            \* the call of evaluate_release_recommendation
    earlier_metrics, \* the dictionaries earlier calls of compute_metrics returned
    run              \* main: the command line, the step reached, the crew outcome, the exit code

vars == <<raw_data, normalize_out, normalized_data, handed_in, metrics_out, quality_gates, gate, earlier_metrics, run>>

(***************************************************************************)
(* Python dictionaries: a function whose DOMAIN is the set of keys.        *)
(***************************************************************************)
EmptyDict == [k \in {} |-> 0]

Get(d, k, default) == IF k \in DOMAIN d THEN d[k] ELSE default

(***************************************************************************)
(* Text and cells.  A text is a tuple of characters.  A cell of a          *)
(* DataFrame is a string, a number or NaN; "text" is what str() gives.     *)
(***************************************************************************)
Text ==
    [Module |-> <<"M", "o", "d", "u", "l", "e">>,
     TestCaseID |-> <<"T", "e", "s", "t", "C", "a", "s", "e", "I", "D">>,
     Description |-> <<"D", "e", "s", "c", "r", "i", "p", "t", "i", "o", "n">>,
     Run |-> <<"R", "u", "n">>,
     Result |-> <<"R", "e", "s", "u", "l", "t">>,
     BugID |-> <<"B", "u", "g", "I", "D">>,
     Priority |-> <<"P", "r", "i", "o", "r", "i", "t", "y">>,
     Severity |-> <<"S", "e", "v", "e", "r", "i", "t", "y">>,
     Duration |-> <<"D", "u", "r", "a", "t", "i", "o", "n">>,
     Tester |-> <<"T", "e", "s", "t", "e", "r">>,
     Pass |-> <<"P", "a", "s", "s">>,
     Fail |-> <<"F", "a", "i", "l">>,
     Blocked |-> <<"B", "l", "o", "c", "k", "e", "d">>,
     Skipped |-> <<"S", "k", "i", "p", "p", "e", "d">>,
     NotExecuted |-> <<"N", "o", "t", " ", "E", "x", "e", "c", "u", "t", "e", "d">>,
     Critical |-> <<"C", "r", "i", "t", "i", "c", "a", "l">>,
     Major |-> <<"M", "a", "j", "o", "r">>,
     Medium |-> <<"M", "e", "d", "i", "u", "m">>,
     Minor |-> <<"M", "i", "n", "o", "r">>,
     Highest |-> <<"H", "i", "g", "h", "e", "s", "t">>,
     High |-> <<"H", "i", "g", "h">>,
     Low |-> <<"L", "o", "w">>,
     TC1 |-> <<"T", "C", "1">>,
     TC2 |-> <<"T", "C", "2">>,
     BUG1 |-> <<"B", "U", "G", "1">>,
     BUG2 |-> <<"B", "U", "G", "2">>,
     Login |-> <<"L", "o", "g", "i", "n">>,
     Checkout |-> <<"C", "h", "e", "c", "k", "o", "u", "t">>,
     Amy |-> <<"a", "m", "y">>,
     One |-> <<"1">>,
     Open |-> <<"O", "p", "e", "n">>,
     NA |-> <<"N", "/", "A">>,
     Empty |-> <<>>]

Str(t) == [kind |-> "str", text |-> t]

NaN == [kind |-> "nan", text |-> <<"n", "a", "n">>]

IntCell(t) == [kind |-> "int", text |-> t]

FloatCell(t) == [kind |-> "float", text |-> t]

notna(c) == c.kind # "nan"

\* c != '' as pandas evaluates it elementwise (NaN != '' is True)
NonEmpty(c) == c # Str(Text.Empty)

(***************************************************************************)
(* DataFrame: the column labels in order and the rows, each a tuple of     *)
(* cells aligned with the labels.                                          *)
(***************************************************************************)
HasCol(df, name) == \E i \in DOMAIN df.columns : df.columns[i] = name

Pos(df, name) == CHOOSE i \in DOMAIN df.columns : df.columns[i] = name

Val(df, r, name) == df.rows[r][Pos(df, name)]

RowIdx(df) == DOMAIN df.rows

\* DataFrame.empty: no rows or no columns
IsEmptyFrame(df) == Len(df.rows) = 0 \/ Len(df.columns) = 0

\* df[name] = values: replaces the column, or appends it when it is new
SetCol(df, name, values) ==
    IF HasCol(df, name)
      THEN [df EXCEPT !.rows = [r \in RowIdx(df) |->
                                  [df.rows[r] EXCEPT ![Pos(df, name)] = values[r]]]]
      ELSE [columns |-> Append(df.columns, name),
            rows |-> [r \in RowIdx(df) |-> Append(df.rows[r], values[r])]]

\* Series.unique(): the distinct values in order of first appearance
RECURSIVE Unique(_)
Unique(s) ==
    IF s = << >> THEN << >>
    ELSE LET front == Unique(SubSeq(s, 1, Len(s) - 1))
             last == s[Len(s)]
         IN  IF \E i \in DOMAIN front : front[i] = last THEN front
             ELSE Append(front, last)

\* the cells of column name over the rows in rs, in row order
RECURSIVE ColOf(_, _, _)
ColOf(df, name, n) ==
    IF n = 0 THEN << >> ELSE Append(ColOf(df, name, n - 1), Val(df, n, name))

Column(df, name) == ColOf(df, name, Len(df.rows))

\* Series.value_counts().to_dict() over the rows rs: NaN is not counted
ValueCounts(df, rs, name) ==
    [v \in {Val(df, r, name) : r \in {x \in rs : notna(Val(df, x, name))}} |->
        Cardinality({r \in rs : Val(df, r, name) = v})]

\* for level in levels: if level not in d: d[level] = 0
EnsureKeys(d, levels) ==
    [k \in DOMAIN d \cup levels |-> IF k \in DOMAIN d THEN d[k] ELSE 0]

\* a division that drops the remainder
RoundDiv_Floor(n, d) == n \div d

\* round(n / d) to the nearest integer, ties to even (Python round)
RoundDiv(n, d) ==
    LET q == n \div d
        r == n % d
    IN  IF 2 * r < d THEN q
        ELSE IF 2 * r > d THEN q + 1
        ELSE IF q % 2 = 0 THEN q ELSE q + 1

NoFrame == [columns |-> << >>, rows |-> << >>]

\* tools.py 243: the distinct values of CANONICAL_COLUMNS in dictionary order
CanonicalOrder ==
    << Text.Module, Text.TestCaseID, Text.Description, Text.Run, Text.Result,
       Text.BugID, Text.Priority, Text.Severity, Text.Duration, Text.Tester >>

(***************************************************************************)
(* str.lower(), str.strip(), pd.to_numeric on texts.                       *)
(***************************************************************************)
LowerTable ==
    ("A" :> "a") @@ ("B" :> "b") @@ ("C" :> "c") @@ ("D" :> "d") @@ ("E" :> "e") @@ ("F" :> "f")
      @@ ("G" :> "g") @@ ("H" :> "h") @@ ("I" :> "i") @@ ("J" :> "j") @@ ("K" :> "k") @@ ("L" :> "l")
      @@ ("M" :> "m") @@ ("N" :> "n") @@ ("O" :> "o") @@ ("P" :> "p") @@ ("Q" :> "q") @@ ("R" :> "r")
      @@ ("S" :> "s") @@ ("T" :> "t") @@ ("U" :> "u") @@ ("V" :> "v") @@ ("W" :> "w") @@ ("X" :> "x")
      @@ ("Y" :> "y") @@ ("Z" :> "z")

\* a lower() that leaves the text as it is
Lower_Identity(t) == t

Lower(t) == [i \in DOMAIN t |-> IF t[i] \in DOMAIN LowerTable THEN LowerTable[t[i]] ELSE t[i]]

Whitespace == {" ", "\t", "\n"}

RECURSIVE LStrip(_)
LStrip(t) == IF t # << >> /\ Head(t) \in Whitespace THEN LStrip(Tail(t)) ELSE t

RECURSIVE RStrip(_)
RStrip(t) ==
    IF t # << >> /\ t[Len(t)] \in Whitespace THEN RStrip(SubSeq(t, 1, Len(t) - 1)) ELSE t

Strip(t) == RStrip(LStrip(t))

Digits == {"0", "1", "2", "3", "4", "5", "6", "7", "8", "9"}

AllDigits(t) == \A i \in DOMAIN t : t[i] \in Digits

\* leading zeros dropped, one digit kept
RECURSIVE DropLeadingZeros(_)
DropLeadingZeros(t) ==
    IF Len(t) > 1 /\ Head(t) = "0" THEN DropLeadingZeros(Tail(t)) ELSE t

\* trailing zeros of a fraction dropped, one digit kept
RECURSIVE DropTrailingZeros(_)
DropTrailingZeros(t) ==
    IF t = << >> THEN <<"0">>
    ELSE IF Len(t) > 1 /\ t[Len(t)] = "0" THEN DropTrailingZeros(SubSeq(t, 1, Len(t) - 1))
    ELSE t

\* the number a text parses to ([sign] digits [. digits]), else NaN
ParseNumber(t) ==
    LET u == Strip(t)
        signed == u # << >> /\ Head(u) \in {"-", "+"}
        body == IF signed THEN Tail(u) ELSE u
        dots == {i \in DOMAIN body : body[i] = "."}
        IsZero(d) == \A i \in DOMAIN d : d[i] = "0"
        Minus(d) == IF signed /\ Head(u) = "-" /\ ~IsZero(d) THEN <<"-">> ELSE << >>
    IN  IF body # << >> /\ AllDigits(body)
          THEN IntCell(Minus(body) \o DropLeadingZeros(body))
        ELSE IF Cardinality(dots) = 1 /\ Len(body) > 1
          THEN LET dot == CHOOSE i \in dots : TRUE
                   whole == SubSeq(body, 1, dot - 1)
                   frac == SubSeq(body, dot + 1, Len(body))
               IN  IF AllDigits(whole) /\ AllDigits(frac)
                     THEN FloatCell((IF signed /\ Head(u) = "-" THEN <<"-">> ELSE << >>)
                                      \o DropLeadingZeros(IF whole = << >> THEN <<"0">> ELSE whole)
                                      \o <<".">> \o DropTrailingZeros(frac))
                     ELSE NaN
        ELSE NaN

(***************************************************************************)
(* The lookup tables of tools.py (lines 19-89).                            *)
(***************************************************************************)
CANONICAL_COLUMNS ==
    (<<"m", "o", "d", "u", "l", "e">> :> Text.Module)
      @@ (<<"t", "e", "s", "t", "c", "a", "s", "e", "i", "d">> :> Text.TestCaseID)
      @@ (<<"t", "e", "s", "t", "_", "c", "a", "s", "e", "_", "i", "d">> :> Text.TestCaseID)
      @@ (<<"t", "e", "s", "t", "c", "a", "s", "e">> :> Text.TestCaseID)
      @@ (<<"t", "c", "_", "i", "d">> :> Text.TestCaseID)
      @@ (<<"t", "c", "i", "d">> :> Text.TestCaseID)
      @@ (<<"d", "e", "s", "c", "r", "i", "p", "t", "i", "o", "n">> :> Text.Description)
      @@ (<<"d", "e", "s", "c">> :> Text.Description)
      @@ (<<"r", "u", "n">> :> Text.Run)
      @@ (<<"r", "e", "s", "u", "l", "t">> :> Text.Result)
      @@ (<<"s", "t", "a", "t", "u", "s">> :> Text.Result)
      @@ (<<"o", "u", "t", "c", "o", "m", "e">> :> Text.Result)
      @@ (<<"b", "u", "g", "i", "d">> :> Text.BugID)
      @@ (<<"b", "u", "g", "_", "i", "d">> :> Text.BugID)
      @@ (<<"d", "e", "f", "e", "c", "t", "_", "i", "d">> :> Text.BugID)
      @@ (<<"p", "r", "i", "o", "r", "i", "t", "y">> :> Text.Priority)
      @@ (<<"s", "e", "v", "e", "r", "i", "t", "y">> :> Text.Severity)
      @@ (<<"d", "u", "r", "a", "t", "i", "o", "n">> :> Text.Duration)
      @@ (<<"t", "e", "s", "t", "e", "r">> :> Text.Tester)
      @@ (<<"e", "x", "e", "c", "u", "t", "e", "d", "_", "b", "y">> :> Text.Tester)

RESULT_MAPPINGS ==
    (<<"p", "a", "s", "s">> :> Text.Pass)
      @@ (<<"p", "a", "s", "s", "e", "d">> :> Text.Pass)
      @@ (<<"p">> :> Text.Pass)
      @@ (<<"f", "a", "i", "l">> :> Text.Fail)
      @@ (<<"f", "a", "i", "l", "e", "d">> :> Text.Fail)
      @@ (<<"f">> :> Text.Fail)
      @@ (<<"b", "l", "o", "c", "k", "e", "d">> :> Text.Blocked)
      @@ (<<"b", "l", "o", "c", "k">> :> Text.Blocked)
      @@ (<<"b">> :> Text.Blocked)
      @@ (<<"s", "k", "i", "p">> :> Text.Skipped)
      @@ (<<"s", "k", "i", "p", "p", "e", "d">> :> Text.Skipped)
      @@ (<<"s">> :> Text.Skipped)
      @@ (<<"n", "o", "t", " ", "e", "x", "e", "c", "u", "t", "e", "d">> :> Text.NotExecuted)
      @@ (<<"n", "o", "t", "_", "e", "x", "e", "c", "u", "t", "e", "d">> :> Text.NotExecuted)
      @@ (<<"p", "e", "n", "d", "i", "n", "g">> :> Text.NotExecuted)
      @@ (<<>> :> Text.NotExecuted)

SEVERITY_MAPPINGS ==
    (<<"c", "r", "i", "t", "i", "c", "a", "l">> :> Text.Critical)
      @@ (<<"c", "r", "i", "t">> :> Text.Critical)
      @@ (<<"1">> :> Text.Critical)
      @@ (<<"m", "a", "j", "o", "r">> :> Text.Major)
      @@ (<<"m", "a", "j">> :> Text.Major)
      @@ (<<"2">> :> Text.Major)
      @@ (<<"m", "e", "d", "i", "u", "m">> :> Text.Medium)
      @@ (<<"m", "e", "d">> :> Text.Medium)
      @@ (<<"3">> :> Text.Medium)
      @@ (<<"m", "i", "n", "o", "r">> :> Text.Minor)
      @@ (<<"m", "i", "n">> :> Text.Minor)
      @@ (<<"4">> :> Text.Minor)

PRIORITY_MAPPINGS ==
    (<<"h", "i", "g", "h", "e", "s", "t">> :> Text.Highest)
      @@ (<<"h", "i", "g", "h">> :> Text.High)
      @@ (<<"m", "e", "d", "i", "u", "m">> :> Text.Medium)
      @@ (<<"l", "o", "w">> :> Text.Low)
      @@ (<<"1">> :> Text.Highest)
      @@ (<<"2">> :> Text.High)
      @@ (<<"3">> :> Text.Medium)
      @@ (<<"4">> :> Text.Low)

Lookup(table, c) == IF c.text \in DOMAIN table THEN Str(table[c.text]) ELSE NaN

fillna(c, value) == IF notna(c) THEN c ELSE value

astype_str(c) == Str(c.text)

(***************************************************************************)
(* normalize_columns (tools.py 210-283)                                    *)
(***************************************************************************)
\* a rename that looks the labels up as they are written
RenamedColumns_Exact(columns) ==
    [i \in DOMAIN columns |->
        IF columns[i] \in DOMAIN CANONICAL_COLUMNS
          THEN CANONICAL_COLUMNS[columns[i]]
          ELSE columns[i]]

\* lines 233-240: the labels after rename(columns=column_mapping)
RenamedColumns(columns) ==
    [i \in DOMAIN columns |->
        IF Strip(Lower(columns[i])) \in DOMAIN CANONICAL_COLUMNS
          THEN CANONICAL_COLUMNS[Strip(Lower(columns[i]))]
          ELSE columns[i]]

\* a fill of the missing columns with a null instead of ''
RECURSIVE AddMissing_Null(_, _)
AddMissing_Null(df, n) ==
    IF n = 0 THEN df
    ELSE LET before == AddMissing_Null(df, n - 1)
         IN  IF HasCol(before, CanonicalOrder[n]) THEN before
             ELSE SetCol(before, CanonicalOrder[n], [r \in RowIdx(before) |-> NaN])

\* lines 243-246: the canonical columns not yet present, appended with ''
RECURSIVE AddMissing(_, _)
AddMissing(df, n) ==
    IF n = 0 THEN df
    ELSE LET before == AddMissing(df, n - 1)
         IN  IF HasCol(before, CanonicalOrder[n]) THEN before
             ELSE SetCol(before, CanonicalOrder[n],
                         [r \in RowIdx(before) |-> Str(Text.Empty)])

TimesPresent(df, name) == Cardinality({i \in DOMAIN df.columns : df.columns[i] = name})

\* lines 250-251: fillna(1), to_numeric(errors='coerce'), fillna(1).  A column
\* with a float or a value that does not parse is a float column.
StandardRun(df) ==
    LET Numeric(c) == IF c.kind = "str" THEN ParseNumber(c.text) ELSE fillna(c, IntCell(Text.One))
        parsed == [r \in RowIdx(df) |-> Numeric(Val(df, r, Text.Run))]
        floats == \E r \in RowIdx(df) : parsed[r].kind \in {"float", "nan"}
        AsColumn(c) ==
            IF ~floats THEN c
            ELSE IF c.kind = "int" THEN FloatCell(c.text \o <<".", "0">>)
            ELSE fillna(c, FloatCell(<<"1", ".", "0">>))
    IN  SetCol(df, Text.Run, [r \in RowIdx(df) |-> AsColumn(parsed[r])])

\* a value standardisation that does not fill the lookup misses
StandardValue_NoDefault(table, c, prefill, default) ==
    LET key == Str(Strip(Lower(astype_str(fillna(c, prefill)).text)))
    IN  IF key.text \in DOMAIN table THEN Str(table[key.text]) ELSE key

\* lines 257-273: [fillna(prefill)], astype(str).str.lower().str.strip(),
\* map(table).fillna(default)
StandardValue(table, c, prefill, default) ==
    LET key == Str(Strip(Lower(astype_str(fillna(c, prefill)).text)))
    IN  fillna(Lookup(table, key), default)

StandardResult(c) ==
    StandardValue(RESULT_MAPPINGS, c, Str(Text.NotExecuted), Str(Text.NotExecuted))

StandardSeverity(c) == StandardValue(SEVERITY_MAPPINGS, c, NaN, Str(Text.Empty))

StandardPriority(c) == StandardValue(PRIORITY_MAPPINGS, c, NaN, Str(Text.Empty))

\* lines 255-274: the three columns are standardised in place, in this order
StandardColumns(df) ==
    LET result == SetCol(df, Text.Result,
                    [r \in RowIdx(df) |-> StandardResult(Val(df, r, Text.Result))])
        severity == SetCol(result, Text.Severity,
                    [r \in RowIdx(df) |-> StandardSeverity(Val(result, r, Text.Severity))])
    IN  SetCol(severity, Text.Priority,
               [r \in RowIdx(df) |-> StandardPriority(Val(severity, r, Text.Priority))])

\* line 280: astype(str).str.strip()
CleanString(c) == Str(Strip(astype_str(c).text))

string_columns == <<Text.TestCaseID, Text.Description, Text.Module, Text.Tester, Text.BugID>>

RECURSIVE CleanStrings(_, _)
CleanStrings(df, n) ==
    IF n = 0 THEN df
    ELSE LET before == CleanStrings(df, n - 1)
         IN  SetCol(before, string_columns[n],
                    [r \in RowIdx(df) |-> CleanString(Val(before, r, string_columns[n]))])

\* the columns normalize_columns reads as a Series; a label present twice
\* selects a DataFrame, which has no .str and is no argument of to_numeric
SeriesColumns ==
    {Text.Run, Text.Result, Text.Severity, Text.Priority}
      \cup {string_columns[i] : i \in DOMAIN string_columns}

\* line 240: rename() keeps every column, mapped or not
KeptColumns(df) == df

NoNormalize == [called |-> FALSE, raised |-> FALSE]

normalize_columns(df) ==
    LET renamed == KeptColumns([df EXCEPT !.columns = RenamedColumns(df.columns)])
        filled == AddMissing(renamed, Len(CanonicalOrder))
    IN  IF \E name \in SeriesColumns : TimesPresent(filled, name) > 1
          THEN [raised |-> TRUE, df |-> NoFrame]
          ELSE [raised |-> FALSE,
                df |-> CleanStrings(StandardColumns(StandardRun(filled)),
                                    Len(string_columns))]

(***************************************************************************)
(* compute_metrics (tools.py 286-478).  The metrics dictionary is a        *)
(* function from its keys; counts keyed by a column's values are keyed by  *)
(* cells.  pass_pct is in hundredths of a percent, density in thousandths, *)
(* density_percentage in tenths of a percent.                              *)
(***************************************************************************)
SeverityLevels ==
    {Str(Text.Critical), Str(Text.Major), Str(Text.Medium), Str(Text.Minor)}

PriorityLevels ==
    {Str(Text.Highest), Str(Text.High), Str(Text.Medium), Str(Text.Low)}

EmptyMetrics ==
    [summary |-> [total |-> 0, executed |-> 0, passed |-> 0, failed |-> 0,
                  blocked |-> 0, skipped |-> 0, pass_pct |-> 0],
     fail_by_module |-> EmptyDict,
     defects_by_severity |-> [k \in SeverityLevels |-> 0],
     defects_by_priority |-> [k \in PriorityLevels |-> 0],
     density |-> EmptyDict,
     flaky |-> << >>,
     key_bugs |-> << >>]

\* len(df[df['Result'] == value])
CountResult(df, value) ==
    Cardinality({r \in RowIdx(df) : Val(df, r, Text.Result) = Str(value)})

\* an executed count that leaves Blocked rows out
ExecutedTests_NoBlocked(df) ==
    Cardinality({r \in RowIdx(df) :
        Val(df, r, Text.Result) \in {Str(Text.Pass), Str(Text.Fail)}})

\* len(df[df['Result'].isin(['Pass', 'Fail', 'Blocked'])])
ExecutedTests(df) ==
    Cardinality({r \in RowIdx(df) :
        Val(df, r, Text.Result) \in {Str(Text.Pass), Str(Text.Fail), Str(Text.Blocked)}})

Summary(df) ==
    LET executed_tests == ExecutedTests(df)
        passed_tests == CountResult(df, Text.Pass)
    IN  [total |-> Len(df.rows),
         executed |-> executed_tests,
         passed |-> passed_tests,
         failed |-> CountResult(df, Text.Fail),
         blocked |-> CountResult(df, Text.Blocked),
         skipped |-> CountResult(df, Text.Skipped),
         pass_pct |-> IF executed_tests > 0
                        THEN RoundDiv(passed_tests * 10000, executed_tests)
                        ELSE 0]

\* a count of failures that lists every module of the frame, with 0 if none failed
FailByModule_Dense(df) ==
    EnsureKeys(ValueCounts(df, {r \in RowIdx(df) : Val(df, r, Text.Result) = Str(Text.Fail)},
                           Text.Module),
               {Val(df, r, Text.Module) : r \in RowIdx(df)})

FailByModule(df) ==
    ValueCounts(df, {r \in RowIdx(df) : Val(df, r, Text.Result) = Str(Text.Fail)},
                Text.Module)

\* the rows with both the field and BugID non-empty
\* defect rows chosen by the field alone, with or without a BugID
DefectRows_AnyBugID(df, field) ==
    {r \in RowIdx(df) : notna(Val(df, r, field)) /\ NonEmpty(Val(df, r, field))}

DefectRows(df, field) ==
    {r \in RowIdx(df) :
        /\ notna(Val(df, r, field)) /\ NonEmpty(Val(df, r, field))
        /\ notna(Val(df, r, Text.BugID)) /\ NonEmpty(Val(df, r, Text.BugID))}

DefectsBy(df, field, levels) ==
    EnsureKeys(ValueCounts(df, DefectRows(df, field), field), levels)

\* a fallback that fires as soon as some row lacks a Severity
FallbackFires_AnyEmpty(df) ==
    /\ \/ ~HasCol(df, Text.Severity)
       \/ \E r \in RowIdx(df) : ~notna(Val(df, r, Text.Severity))
       \/ \E r \in RowIdx(df) : Val(df, r, Text.Severity) = Str(Text.Empty)
    /\ HasCol(df, Text.Priority)
    /\ ~(\A r \in RowIdx(df) : ~notna(Val(df, r, Text.Priority)))
    /\ \E r \in RowIdx(df) : NonEmpty(Val(df, r, Text.Priority))

\* lines 367-368
FallbackFires(df) ==
    /\ \/ ~HasCol(df, Text.Severity)
       \/ \A r \in RowIdx(df) : ~notna(Val(df, r, Text.Severity))
       \/ \A r \in RowIdx(df) : Val(df, r, Text.Severity) = Str(Text.Empty)
    /\ HasCol(df, Text.Priority)
    /\ ~(\A r \in RowIdx(df) : ~notna(Val(df, r, Text.Priority)))
    /\ \E r \in RowIdx(df) : NonEmpty(Val(df, r, Text.Priority))

priority_to_severity ==
    (Str(Text.Highest) :> Str(Text.Critical)) @@ (Str(Text.High) :> Str(Text.Major))
      @@ (Str(Text.Medium) :> Str(Text.Medium)) @@ (Str(Text.Low) :> Str(Text.Minor))

\* df['Priority'].map(priority_to_severity).fillna('')
MappedSeverity(df) ==
    [r \in RowIdx(df) |->
        Get(priority_to_severity, Val(df, r, Text.Priority), Str(Text.Empty))]

\* a fallback that moves Priority into Severity and leaves Priority empty
FrameAfterFallback_MovesPriority(df) ==
    SetCol(SetCol(df, Text.Severity, MappedSeverity(df)), Text.Priority,
           [r \in RowIdx(df) |-> Str(Text.Empty)])

\* line 381: df['Severity'] = ... assigns into the frame that was passed in
FrameAfterFallback(df) == SetCol(df, Text.Severity, MappedSeverity(df))

RowSeq(df) == [i \in RowIdx(df) |-> i]

ModuleRows(df, module) == {r \in RowIdx(df) : Val(df, r, Text.Module) = module}

\* bug rows taken to be all the rows, an empty BugID included
BugRows_All(df, rs) == rs

BugRows(df, rs) ==
    {r \in rs : notna(Val(df, r, Text.BugID)) /\ NonEmpty(Val(df, r, Text.BugID))}

SeverityBreakdown(df, module_defects, module_bugs) ==
    IF HasCol(df, Text.Severity)
      THEN LET severity_counts == ValueCounts(df, module_defects, Text.Severity)
           IN  [critical |-> Get(severity_counts, Str(Text.Critical), 0),
                major |-> Get(severity_counts, Str(Text.Major), 0),
                medium |-> Get(severity_counts, Str(Text.Medium), 0),
                minor |-> Get(severity_counts, Str(Text.Minor), 0)]
    ELSE IF HasCol(df, Text.Priority)
      THEN LET priority_counts == ValueCounts(df, module_defects, Text.Priority)
           IN  [critical |-> Get(priority_counts, Str(Text.Highest), 0),
                major |-> Get(priority_counts, Str(Text.High), 0),
                medium |-> Get(priority_counts, Str(Text.Medium), 0),
                minor |-> Get(priority_counts, Str(Text.Low), 0)]
    ELSE [critical |-> 0, major |-> 0, medium |-> module_bugs, minor |-> 0]

DensityEntry(df, module) ==
    LET module_data == ModuleRows(df, module)
        module_total_tests == Cardinality(module_data)
        module_defects == BugRows(df, module_data)
        module_bugs == Cardinality({Val(df, r, Text.BugID) : r \in module_defects})
        breakdown == SeverityBreakdown(df, module_defects, module_bugs)
    IN  [total |-> module_bugs,
         density |-> RoundDiv(module_bugs * 1000, module_total_tests),
         density_percentage |-> RoundDiv(module_bugs * 1000, module_total_tests),
         total_tests |-> module_total_tests,
         critical |-> breakdown.critical,
         major |-> breakdown.major,
         medium |-> breakdown.medium,
         minor |-> breakdown.minor,
         risk_level |-> IF module_bugs * 10 > 3 * module_total_tests THEN "High"
                        ELSE IF module_bugs * 10 > module_total_tests THEN "Medium"
                        ELSE "Low"]

Density(df) ==
    [module \in {Val(df, r, Text.Module) :
                   r \in {x \in RowIdx(df) : /\ notna(Val(df, x, Text.Module))
                                             /\ NonEmpty(Val(df, x, Text.Module))}} |->
        DensityEntry(df, module)]

\* df[df['TestCaseID'] == test_id]['Result'].unique()
TestResults(df, test_id) ==
    {Val(df, r, Text.Result) : r \in {x \in RowIdx(df) : Val(df, x, Text.TestCaseID) = test_id}}

\* a flaky test that any Fail row marks as flaky
IsFlaky_FailOnly(df, test_id) ==
    /\ notna(test_id) /\ NonEmpty(test_id)
    /\ Str(Text.Fail) \in TestResults(df, test_id)

IsFlaky(df, test_id) ==
    /\ notna(test_id) /\ NonEmpty(test_id)
    /\ Str(Text.Pass) \in TestResults(df, test_id)
    /\ Str(Text.Fail) \in TestResults(df, test_id)

Flaky(df) ==
    LET Test(test_id) == IsFlaky(df, test_id)
    IN  SelectSeq(Unique(Column(df, Text.TestCaseID)), Test)

\* row.get(field, default) if pd.notna(row.get(field)) else default
RowGetOr(df, r, field, default) ==
    IF HasCol(df, field) /\ notna(Val(df, r, field)) THEN Val(df, r, field) ELSE default

BugInfo(df, r) ==
    [id |-> Val(df, r, Text.BugID),
     module |-> Val(df, r, Text.Module),
     severity |-> RowGetOr(df, r, Text.Severity, Str(Text.Medium)),
     priority |-> RowGetOr(df, r, Text.Priority, Str(Text.Medium)),
     status |-> Str(Text.Open),
     assigned_to |-> RowGetOr(df, r, Text.Tester, Str(Text.NA))]

RECURSIVE CollectBugs(_, _, _)
CollectBugs(df, bug_rows, n) ==
    IF n = 0 THEN << >>
    ELSE LET key_bugs == CollectBugs(df, bug_rows, n - 1)
             bug_info == BugInfo(df, bug_rows[n])
         IN  IF \E i \in DOMAIN key_bugs : key_bugs[i].id = bug_info.id THEN key_bugs
             ELSE Append(key_bugs, bug_info)

KeyBugs(df) ==
    IF HasCol(df, Text.Module)
      THEN LET InBugDf(r) == /\ notna(Val(df, r, Text.BugID)) /\ NonEmpty(Val(df, r, Text.BugID))
                             /\ notna(Val(df, r, Text.Module)) /\ NonEmpty(Val(df, r, Text.Module))
               bug_rows == SelectSeq(RowSeq(df), InBugDf)
           IN  CollectBugs(df, bug_rows, Len(bug_rows))
      ELSE LET HasBug(c) == notna(c) /\ NonEmpty(c)
               ids == Unique(SelectSeq(Column(df, Text.BugID), HasBug))
           IN  [i \in DOMAIN ids |->
                  [id |-> ids[i], module |-> Str(Text.NA), severity |-> Str(Text.Medium),
                   priority |-> Str(Text.Medium), status |-> Str(Text.Open),
                   assigned_to |-> Str(Text.NA)]]

NoMetrics ==
    [called |-> FALSE, raised |-> FALSE, fallback |-> FALSE, metrics |-> EmptyDict]

\* The result of a call: the dictionary returned (or raised, for a frame
\* without a Result column, line 315), whether lines 370-393 ran, and the
\* frame the caller holds afterwards.
compute_metrics(df) ==
    IF IsEmptyFrame(df)
      THEN [out |-> [NoMetrics EXCEPT !.called = TRUE, !.metrics = EmptyMetrics], df |-> df]
    ELSE IF ~HasCol(df, Text.Result)
      THEN [out |-> [NoMetrics EXCEPT !.called = TRUE, !.raised = TRUE], df |-> df]
    ELSE IF FallbackFires(df) /\ ~HasCol(df, Text.BugID)
      \* lines 381-385: Severity is assigned, then df['BugID'] raises KeyError
      THEN [out |-> [NoMetrics EXCEPT !.called = TRUE, !.raised = TRUE, !.fallback = TRUE],
            df |-> FrameAfterFallback(df)]
    ELSE
      LET fires == FallbackFires(df)
          df2 == IF fires THEN FrameAfterFallback(df) ELSE df
          has_bug == HasCol(df, Text.BugID)
          m1 == ("summary" :> Summary(df))
          m2 == IF HasCol(df, Text.Module)
                  THEN ("fail_by_module" :> FailByModule(df)) ELSE EmptyDict
          m3 == IF fires /\ has_bug
                  THEN ("defects_by_severity" :> DefectsBy(df2, Text.Severity, SeverityLevels))
                ELSE IF HasCol(df, Text.Severity) /\ has_bug
                  THEN ("defects_by_severity" :> DefectsBy(df, Text.Severity, SeverityLevels))
                ELSE EmptyDict
          m4 == IF HasCol(df, Text.Priority) /\ has_bug
                  THEN ("defects_by_priority" :> DefectsBy(df, Text.Priority, PriorityLevels))
                ELSE EmptyDict
          m5 == IF HasCol(df2, Text.Module) /\ has_bug
                  THEN ("density" :> Density(df2)) ELSE EmptyDict
          m6 == IF HasCol(df2, Text.TestCaseID)
                  THEN ("flaky" :> Flaky(df2)) ELSE EmptyDict
          m7 == IF has_bug THEN ("key_bugs" :> KeyBugs(df2)) ELSE EmptyDict
      IN  [out |-> [NoMetrics EXCEPT !.called = TRUE, !.fallback = fires,
                                     !.metrics = m1 @@ m2 @@ m3 @@ m4 @@ m5 @@ m6 @@ m7],
           df |-> df2]

(***************************************************************************)
(* Quality gate profiles (quality_gates.yaml as ConfigManager returns it). *)
(***************************************************************************)
DefaultMinPassRate == 0

DefaultMaxDefects == 999

MaxDefects == 2

ThresholdKeys == {"min_pass_rate", "max_critical_defects", "max_major_defects"}

ApprovedPassRates == {8000, 9500}

ConditionalPassRates == {8000}

DefectThresholds == {0, 1}

PassRates == {0, 7999, 8000, 9500, 10000}

DefectCounts == (0 .. MaxDefects) \cup {DefaultMaxDefects, DefaultMaxDefects + 1}

GateNames == {"default", "strict", "nightly"}

Tier(K, p, c, m) ==
    [k \in K |-> CASE k = "min_pass_rate" -> p
                   [] k = "max_critical_defects" -> c
                   [] OTHER -> m]

Tiers(P) ==
    { Tier(K, p, c, m) : K \in SUBSET ThresholdKeys, p \in P,
                         c \in DefectThresholds, m \in DefectThresholds }

ReleaseThresholds ==
    { [t \in K |-> IF t = "approved" THEN a ELSE c] :
        K \in SUBSET {"approved", "conditional"},
        a \in Tiers(ApprovedPassRates), c \in Tiers(ConditionalPassRates) }

GateConfigs ==
    {EmptyDict} \cup { [k \in {"release_thresholds"} |-> rt] : rt \in ReleaseThresholds }

StrictConfig ==
    [k \in {"name", "release_thresholds"} |->
        IF k = "name" THEN "Strict Quality Gate"
        ELSE [t \in {"approved", "conditional"} |->
                IF t = "approved" THEN Tier(ThresholdKeys, 9500, 0, 0)
                ELSE Tier(ThresholdKeys, 8000, 0, 1)]]

\* ConfigManager.load_config returns {} when the file is missing or unreadable,
\* and get_quality_gate_config returns config.get('quality_gates', {}).
LoadedQualityGates ==
    {EmptyDict}
      \cup { [n \in {"default"} |-> d] : d \in GateConfigs }
      \cup { [n \in {"strict"} |-> StrictConfig] }
      \cup { [n \in {"default", "strict"} |-> IF n = "default" THEN d ELSE StrictConfig] :
               d \in GateConfigs }

(***************************************************************************)
(* QualityGateEvaluator.evaluate_release_recommendation                    *)
(***************************************************************************)
\* f"{pass_rate:.1f}": the pass rate to one decimal, in tenths of a percent
Format1f(x) == (x + 5) \div 10

Clause(metric, value, op, threshold) ==
    [metric |-> metric, value |-> value, op |-> op, threshold |-> threshold]

NoCall ==
    [called |-> FALSE, raised |-> FALSE, requested |-> "", pass_rate |-> 0,
     critical_defects |-> 0, major_defects |-> 0, recommendation |-> "",
     details |-> EmptyDict]

\* a tier check that forgets the major-defect criterion
TierMet_NoMajor(criteria, pass_rate, critical_defects, major_defects) ==
    /\ pass_rate >= Get(criteria, "min_pass_rate", DefaultMinPassRate)
    /\ critical_defects <= Get(criteria, "max_critical_defects", DefaultMaxDefects)

\* a tier check that reads max_critical_defects as a minimum
TierMet_CriticalAtLeast(criteria, pass_rate, critical_defects, major_defects) ==
    /\ pass_rate >= Get(criteria, "min_pass_rate", DefaultMinPassRate)
    /\ critical_defects >= Get(criteria, "max_critical_defects", DefaultMaxDefects)
    /\ major_defects <= Get(criteria, "max_major_defects", DefaultMaxDefects)

TierMet(criteria, pass_rate, critical_defects, major_defects) ==
    /\ pass_rate >= Get(criteria, "min_pass_rate", DefaultMinPassRate)
    /\ critical_defects <= Get(criteria, "max_critical_defects", DefaultMaxDefects)
    /\ major_defects <= Get(criteria, "max_major_defects", DefaultMaxDefects)

MetReason(criteria, pass_rate, critical_defects, major_defects) ==
    << Clause("Pass rate", Format1f(pass_rate), ">=",
              Get(criteria, "min_pass_rate", DefaultMinPassRate)),
       Clause("Critical defects", critical_defects, "<=",
              Get(criteria, "max_critical_defects", DefaultMaxDefects)),
       Clause("Major defects", major_defects, "<=",
              Get(criteria, "max_major_defects", DefaultMaxDefects)) >>

\* a justification that stops at the first failed criterion (elif for if)
FailedCriteria_FirstOnly(conditional_criteria, pass_rate, critical_defects, major_defects) ==
    IF pass_rate < Get(conditional_criteria, "min_pass_rate", DefaultMinPassRate)
      THEN << Clause("Pass rate", Format1f(pass_rate), "<",
                     Get(conditional_criteria, "min_pass_rate", DefaultMinPassRate)) >>
    ELSE IF critical_defects > Get(conditional_criteria, "max_critical_defects", DefaultMaxDefects)
      THEN << Clause("Critical defects", critical_defects, ">",
                     Get(conditional_criteria, "max_critical_defects", DefaultMaxDefects)) >>
    ELSE IF major_defects > Get(conditional_criteria, "max_major_defects", DefaultMaxDefects)
      THEN << Clause("Major defects", major_defects, ">",
                     Get(conditional_criteria, "max_major_defects", DefaultMaxDefects)) >>
    ELSE << >>

FailedCriteria(conditional_criteria, pass_rate, critical_defects, major_defects) ==
    (IF pass_rate < Get(conditional_criteria, "min_pass_rate", DefaultMinPassRate)
       THEN << Clause("Pass rate", Format1f(pass_rate), "<",
                      Get(conditional_criteria, "min_pass_rate", DefaultMinPassRate)) >>
       ELSE << >>)
    \o
    (IF critical_defects > Get(conditional_criteria, "max_critical_defects", DefaultMaxDefects)
       THEN << Clause("Critical defects", critical_defects, ">",
                      Get(conditional_criteria, "max_critical_defects", DefaultMaxDefects)) >>
       ELSE << >>)
    \o
    (IF major_defects > Get(conditional_criteria, "max_major_defects", DefaultMaxDefects)
       THEN << Clause("Major defects", major_defects, ">",
                      Get(conditional_criteria, "max_major_defects", DefaultMaxDefects)) >>
       ELSE << >>)

\* a fallback that prefers the strict profile to the default one
ResolveGate_Strict(gates, quality_gate) ==
    IF quality_gate \in DOMAIN gates THEN quality_gate
    ELSE IF "strict" \in DOMAIN gates THEN "strict" ELSE "default"

\* lines 41-43: an unknown name is replaced by "default"
ResolveGate(gates, quality_gate) ==
    IF quality_gate \notin DOMAIN gates THEN "default" ELSE quality_gate

evaluate_release_recommendation(gates, pass_rate, critical_defects, major_defects, quality_gate) ==
    LET used == ResolveGate(gates, quality_gate)
        call == [NoCall EXCEPT !.called = TRUE, !.requested = quality_gate,
                               !.pass_rate = pass_rate,
                               !.critical_defects = critical_defects,
                               !.major_defects = major_defects]
    IN  IF used \notin DOMAIN gates
          THEN [call EXCEPT !.raised = TRUE]      \* line 45: KeyError
          ELSE
            LET gate_config == gates[used]
                release_thresholds == Get(gate_config, "release_thresholds", EmptyDict)
                approved_criteria == Get(release_thresholds, "approved", EmptyDict)
                conditional_criteria == Get(release_thresholds, "conditional", EmptyDict)
                recommendation ==
                    IF TierMet(approved_criteria, pass_rate, critical_defects, major_defects)
                      THEN "APPROVED"
                    ELSE IF TierMet(conditional_criteria, pass_rate, critical_defects, major_defects)
                      THEN "CONDITIONAL"
                    ELSE "REJECTED"
                reason ==
                    IF recommendation = "APPROVED"
                      THEN MetReason(approved_criteria, pass_rate, critical_defects, major_defects)
                    ELSE IF recommendation = "CONDITIONAL"
                      THEN MetReason(conditional_criteria, pass_rate, critical_defects, major_defects)
                    ELSE FailedCriteria(conditional_criteria, pass_rate, critical_defects, major_defects)
            IN  [call EXCEPT
                   !.recommendation = recommendation,
                   !.details =
                      [quality_gate_used |-> used,
                       gate_name |-> Get(gate_config, "name", used),
                       pass_rate |-> pass_rate,
                       critical_defects |-> critical_defects,
                       major_defects |-> major_defects,
                       criteria_met |-> (recommendation # "REJECTED"),
                       reason |-> reason,
                       release_thresholds |-> release_thresholds,
                       additional_criteria |-> Get(gate_config, "additional_criteria", EmptyDict)]]

(***************************************************************************)
(* Canonical frames: what normalize_columns hands to compute_metrics.      *)
(***************************************************************************)
MaxRows == 3

MaxDefectRows == 2

CanonicalRow(module, test_id, result, bug_id, priority, severity, tester) ==
    << Str(module), Str(test_id), Str(Text.Empty), IntCell(Text.One), Str(result),
       Str(bug_id), Str(priority), Str(severity), Str(Text.Empty), Str(tester) >>

FramesOf(rows, n) ==
    { [columns |-> CanonicalOrder, rows |-> rs] :
        rs \in UNION { [1 .. k -> rows] : k \in 0 .. n } }

CanonicalResults ==
    {Text.Pass, Text.Fail, Text.Blocked, Text.Skipped, Text.NotExecuted}

\* rows that differ in TestCaseID and Result
ResultRows ==
    { CanonicalRow(Text.Login, t, res, Text.Empty, Text.Empty, Text.Empty, Text.Amy) :
        t \in {Text.Empty, Text.TC1, Text.TC2}, res \in CanonicalResults }

\* rows that differ in BugID, Priority and Severity
DefectRowValues ==
    { CanonicalRow(Text.Login, Text.TC1, Text.Fail, b, pri, sev, Text.Amy) :
        b \in {Text.Empty, Text.BUG1},
        pri \in {Text.Empty, Text.Highest, Text.High, Text.Medium, Text.Low},
        sev \in {Text.Empty, Text.Critical, Text.Minor} }

(***************************************************************************)
(* Raw frames: what read_execution_file hands to normalize_columns.        *)
(***************************************************************************)
MaxRawRows == 2

\* column labels as they come in the file
Label ==
    [Status |-> <<"S", "t", "a", "t", "u", "s">>,
     result_ |-> <<"r", "e", "s", "u", "l", "t", " ">>,
     TCID |-> <<"T", "C", "I", "D">>,
     SEVERITY |-> <<"S", "E", "V", "E", "R", "I", "T", "Y">>,
     priority |-> <<"p", "r", "i", "o", "r", "i", "t", "y">>,
     Notes |-> <<"N", "o", "t", "e", "s">>,
     Run |-> <<"R", "u", "n">>,
     bug_id |-> <<"b", "u", "g", "_", "i", "d">>,
     Module |-> <<"M", "o", "d", "u", "l", "e">>,
     module_ |-> <<" ", "m", "o", "d", "u", "l", "e">>,
     Duration |-> <<"D", "u", "r", "a", "t", "i", "o", "n">>,
     duration_ |-> <<"d", "u", "r", "a", "t", "i", "o", "n", " ">>]

\* raw values as they come in the file
Raw ==
    [PASS |-> <<"P", "A", "S", "S">>,
     fail |-> <<" ", "f", "a", "i", "l", " ">>,
     b |-> <<"b">>,
     Skipped |-> <<"S", "k", "i", "p", "p", "e", "d">>,
     pending |-> <<"p", "e", "n", "d", "i", "n", "g">>,
     xyz |-> <<"x", "y", "z">>,
     CRITICAL |-> <<"C", "R", "I", "T", "I", "C", "A", "L">>,
     min |-> <<" ", "m", "i", "n", " ">>,
     two |-> <<"2">>,
     blocker |-> <<"b", "l", "o", "c", "k", "e", "r">>,
     OnePointZero |-> <<"1", ".", "0">>,
     HIGH |-> <<"H", "I", "G", "H">>,
     low |-> <<"l", "o", "w", " ">>,
     urgent |-> <<"u", "r", "g", "e", "n", "t">>,
     TC1pad |-> <<" ", "T", "C", "1", " ">>,
     blank |-> <<" ", " ">>,
     three |-> <<" ", "3", " ">>,
     x |-> <<"x">>,
     minus1 |-> <<"-", "1">>,
     twohalf |-> <<"2", ".", "5">>,
     n1 |-> <<"n", "1">>,
     ms |-> <<"1", "2", "m", "s">>]

ResultInputs ==
    {Str(Raw.PASS), Str(Raw.fail), Str(Raw.b), Str(Raw.Skipped), Str(Raw.pending),
     Str(Text.Empty), Str(Raw.xyz), NaN}

SeverityInputs ==
    {Str(Raw.CRITICAL), Str(Raw.min), Str(Raw.two), IntCell(Text.One),
     FloatCell(Raw.OnePointZero), Str(Text.Empty), Str(Raw.blocker), NaN}

PriorityInputs ==
    {Str(Raw.HIGH), Str(Raw.low), Str(Text.One), Str(Text.Empty), Str(Raw.urgent), NaN}

StringInputs == {Str(Raw.TC1pad), Str(Text.TC1), Str(Text.Empty), Str(Raw.blank), NaN}

RunInputs ==
    {Str(Raw.two), Str(Raw.three), Str(Raw.x), Str(Text.Empty), NaN, IntCell(Raw.two),
     Str(Raw.minus1), Str(Raw.twohalf)}

ColumnSpec(label, values) == [label |-> label, values |-> values]

\* the columns of the modelled files: each label with the values its cells take
Layouts ==
    { << >>,
      << ColumnSpec(Label.Status, ResultInputs) >>,
      << ColumnSpec(Label.SEVERITY, SeverityInputs) >>,
      << ColumnSpec(Label.priority, PriorityInputs) >>,
      << ColumnSpec(Label.TCID, StringInputs) >>,
      << ColumnSpec(Label.bug_id, StringInputs) >>,
      << ColumnSpec(Label.Run, RunInputs) >>,
      << ColumnSpec(Label.Notes, {Str(Raw.n1), NaN}) >>,
      << ColumnSpec(Label.TCID, {Str(Text.TC1), Str(Text.TC2)}),
         ColumnSpec(Label.Notes, {Str(Raw.n1), Str(Text.Empty)}) >>,
      << ColumnSpec(Label.Status, {Str(Raw.PASS), Str(Raw.xyz), NaN}),
         ColumnSpec(Label.SEVERITY, {Str(Raw.CRITICAL), Str(Raw.blocker), NaN}) >>,
      << ColumnSpec(Label.SEVERITY, {Str(Raw.min), Str(Text.Empty)}),
         ColumnSpec(Label.priority, {Str(Raw.HIGH), Str(Raw.urgent), NaN}) >>,
      << ColumnSpec(Label.Status, {Str(Raw.PASS), Str(Raw.fail)}),
         ColumnSpec(Label.result_, {Str(Raw.PASS), Str(Raw.b)}) >>,
      << ColumnSpec(Label.Module, {Str(Text.Login), Str(Text.Empty)}),
         ColumnSpec(Label.module_, {Str(Text.Login), Str(Text.Checkout)}) >>,
      << ColumnSpec(Label.Duration, {Str(Raw.ms), Str(Text.Empty)}),
         ColumnSpec(Label.duration_, {Str(Raw.ms), NaN}) >> }

RECURSIVE RowsOfLayout(_)
RowsOfLayout(layout) ==
    IF layout = << >> THEN {<< >>}
    ELSE { Append(row, v) : row \in RowsOfLayout(SubSeq(layout, 1, Len(layout) - 1)),
                            v \in layout[Len(layout)].values }

RawFrames ==
    UNION { { [columns |-> [i \in DOMAIN layout |-> layout[i].label], rows |-> rs] :
                rs \in UNION { [1 .. k -> RowsOfLayout(layout)] : k \in 0 .. MaxRawRows } } :
            layout \in Layouts }

(***************************************************************************)
(* The command line and the progress of one run of main().                 *)
(***************************************************************************)
NoReport == [rendered |-> FALSE, release_recommendation |-> "", crew_findings |-> FALSE]

NoRun ==
    [pc |-> "idle", api_key |-> FALSE, file |-> "", content |-> NoFrame, skip_crew |-> FALSE,
     config_exists |-> FALSE, quality_gate |-> "", crew |-> "", crew_metadata |-> FALSE,
     load_raised |-> FALSE, exit_code |-> -1, report |-> NoReport]

(***************************************************************************)
(* normalize_columns on its own (main.py 482-483).                         *)
(***************************************************************************)
Normalize ==
    /\ ~normalize_out.called
    /\ LET res == normalize_columns(raw_data)
       IN  /\ normalize_out' = [called |-> TRUE, raised |-> res.raised]
           /\ normalized_data' = res.df
    /\ UNCHANGED <<raw_data, handed_in, metrics_out, quality_gates, gate, earlier_metrics, run>>

InitNorm ==
    /\ raw_data \in RawFrames
    /\ normalize_out = NoNormalize
    /\ normalized_data = NoFrame
    /\ handed_in = NoFrame
    /\ metrics_out = NoMetrics
    /\ quality_gates = EmptyDict
    /\ gate = NoCall
    /\ earlier_metrics = <<>>
    /\ run = NoRun

NextNorm == Normalize

SpecNorm == InitNorm /\ [][NextNorm]_vars

(***************************************************************************)
(* compute_metrics on its own (main.py 516).                               *)
(***************************************************************************)
ComputeMetrics ==
    /\ ~metrics_out.called
    /\ LET res == compute_metrics(normalized_data)
       IN  /\ metrics_out' = res.out
           /\ normalized_data' = res.df
    /\ handed_in' = normalized_data
    /\ UNCHANGED <<raw_data, normalize_out, quality_gates, gate, earlier_metrics, run>>

InitSummary ==
    /\ raw_data = NoFrame
    /\ normalize_out = NoNormalize
    /\ normalized_data \in FramesOf(ResultRows, MaxRows)
    /\ handed_in = NoFrame
    /\ metrics_out = NoMetrics
    /\ quality_gates = EmptyDict
    /\ gate = NoCall
    /\ earlier_metrics = <<>>
    /\ run = NoRun

InitDefects ==
    /\ raw_data = NoFrame
    /\ normalize_out = NoNormalize
    /\ normalized_data \in FramesOf(DefectRowValues, MaxDefectRows)
    /\ handed_in = NoFrame
    /\ metrics_out = NoMetrics
    /\ quality_gates = EmptyDict
    /\ gate = NoCall
    /\ earlier_metrics = <<>>
    /\ run = NoRun

NextMetrics == ComputeMetrics

SpecSummary == InitSummary /\ [][NextMetrics]_vars

SpecDefects == InitDefects /\ [][NextMetrics]_vars

(***************************************************************************)
(* The evaluator on its own: every profile set, every input.               *)
(***************************************************************************)
InitGate ==
    /\ raw_data = NoFrame
    /\ normalize_out = NoNormalize
    /\ quality_gates \in LoadedQualityGates
    /\ gate = NoCall
    /\ earlier_metrics = <<>>
    /\ run = NoRun
    /\ normalized_data = NoFrame
    /\ handed_in = NoFrame
    /\ metrics_out = NoMetrics

\* main() evaluates once per run (main.py 616-626)
Evaluate ==
    /\ ~gate.called
    /\ \E pr \in PassRates, cd \in DefectCounts, md \in DefectCounts, g \in GateNames :
          gate' = evaluate_release_recommendation(quality_gates, pr, cd, md, g)
    /\ UNCHANGED <<raw_data, normalize_out, quality_gates, normalized_data, handed_in, metrics_out, earlier_metrics, run>>

NextGate == Evaluate

SpecGate == InitGate /\ [][NextGate]_vars

(***************************************************************************)
(* Claims about the quality gate (checked under SpecGate).                 *)
(***************************************************************************)
Returned == gate.called /\ ~gate.raised

\* the profile the call is evaluated against
ProfileUsed ==
    IF gate.requested \in DOMAIN quality_gates THEN gate.requested ELSE "default"

\* the criteria a tier of that profile configures
TierOfProfile(tier) ==
    LET cfg == quality_gates[ProfileUsed]
        rt == IF "release_thresholds" \in DOMAIN cfg THEN cfg["release_thresholds"]
              ELSE EmptyDict
    IN  IF tier \in DOMAIN rt THEN rt[tier] ELSE EmptyDict

\* the threshold a criterion is evaluated against: the configured one, else
\* 0 for the pass rate and 999 for a defect count
ThresholdOf(tier, key) ==
    LET t == TierOfProfile(tier)
    IN  IF key \in DOMAIN t THEN t[key]
        ELSE IF key = "min_pass_rate" THEN 0 ELSE 999

PassOk(tier) == gate.pass_rate >= ThresholdOf(tier, "min_pass_rate")

CriticalOk(tier) == gate.critical_defects <= ThresholdOf(tier, "max_critical_defects")

MajorOk(tier) == gate.major_defects <= ThresholdOf(tier, "max_major_defects")

Satisfies(tier) == PassOk(tier) /\ CriticalOk(tier) /\ MajorOk(tier)

\* C1: the recommendation is APPROVED iff the three approved criteria hold,
\* otherwise CONDITIONAL iff the three conditional criteria hold, otherwise
\* REJECTED; the approved tier wins when both are satisfied, and exactly one
\* of the three values is returned.
C1_TierDecision ==
    Returned =>
        /\ gate.recommendation \in {"APPROVED", "CONDITIONAL", "REJECTED"}
        /\ (gate.recommendation = "APPROVED") <=> Satisfies("approved")
        /\ (gate.recommendation = "CONDITIONAL") <=>
              (~Satisfies("approved") /\ Satisfies("conditional"))
        /\ (gate.recommendation = "REJECTED") <=>
              (~Satisfies("approved") /\ ~Satisfies("conditional"))

\* an input that satisfies both fully configured tiers, with the approved tier
\* the stricter one on the pass rate, and that is APPROVED
C1_Witness ==
    /\ Returned
    /\ DOMAIN TierOfProfile("approved") = ThresholdKeys
    /\ DOMAIN TierOfProfile("conditional") = ThresholdKeys
    /\ TierOfProfile("approved") # TierOfProfile("conditional")
    /\ Satisfies("approved") /\ Satisfies("conditional")
    /\ gate.recommendation = "APPROVED"

\* C6: a profile name that is not loaded raises no error and yields what the
\* 'default' profile yields for the same metrics, reporting
\* quality_gate_used = 'default'.
C6_UnknownProfileFallsBack ==
    (gate.called /\ gate.requested \notin DOMAIN quality_gates) =>
        /\ ~gate.raised
        /\ gate.recommendation \in {"APPROVED", "CONDITIONAL", "REJECTED"}
        /\ gate.recommendation =
             evaluate_release_recommendation(quality_gates, gate.pass_rate,
                 gate.critical_defects, gate.major_defects, "default").recommendation
        /\ gate.details.quality_gate_used = "default"

MetricOf(key) ==
    CASE key = "min_pass_rate" -> "Pass rate"
      [] key = "max_critical_defects" -> "Critical defects"
      [] OTHER -> "Major defects"

Violates(key) ==
    CASE key = "min_pass_rate" -> ~PassOk("conditional")
      [] key = "max_critical_defects" -> ~CriticalOk("conditional")
      [] OTHER -> ~MajorOk("conditional")

Cited(key) ==
    \E i \in DOMAIN gate.details.reason : gate.details.reason[i].metric = MetricOf(key)

\* C7: a criterion whose threshold is omitted is satisfied for every input, so
\* it is never cited as a reason for rejection, and a profile that configures
\* no threshold at all yields APPROVED for every input.
C7_OmittedThresholdNeverRejects ==
    Returned =>
        /\ (DOMAIN TierOfProfile("approved") = {} /\ DOMAIN TierOfProfile("conditional") = {})
              => gate.recommendation = "APPROVED"
        /\ gate.recommendation = "REJECTED" =>
              \A i \in DOMAIN gate.details.reason :
                 \E key \in DOMAIN TierOfProfile("conditional") :
                    gate.details.reason[i].metric = MetricOf(key)

\* C8: the reason of a REJECTED result cites every conditional-tier criterion
\* the input violates and no criterion it satisfies, each once, so it is
\* never empty.
C8_RejectedReasonComplete ==
    (Returned /\ gate.recommendation = "REJECTED") =>
        /\ \A key \in ThresholdKeys : Cited(key) <=> Violates(key)
        /\ Len(gate.details.reason) = Cardinality({key \in ThresholdKeys : Violates(key)})
        /\ \A i \in DOMAIN gate.details.reason :
              gate.details.reason[i].op \in {"<", ">"}
        /\ gate.details.reason # << >>

\* a rejection that violates two conditional criteria at once and satisfies the third
C8_Witness ==
    /\ Returned
    /\ gate.recommendation = "REJECTED"
    /\ DOMAIN TierOfProfile("conditional") = ThresholdKeys
    /\ Violates("min_pass_rate") /\ Violates("max_major_defects")
    /\ ~Violates("max_critical_defects")
    /\ Len(gate.details.reason) = 2

(***************************************************************************)
(* Claims about compute_metrics (SpecSummary, SpecDefects).                *)
(***************************************************************************)
MetricsReturned == metrics_out.called /\ ~metrics_out.raised

\* the value a row of the frame handed in has in a column
In(r, field) == Val(handed_in, r, field).text

InRows == RowIdx(handed_in)

NumRows(P(_)) == Cardinality({r \in InRows : P(r)})

\* C2: for a non-empty canonical frame, passed + failed + blocked = executed
\* and executed + skipped <= total, executed counting exactly the rows whose
\* Result is Pass, Fail or Blocked (Not Executed rows are in total only).
C2_SummaryCounts ==
    (MetricsReturned /\ Len(handed_in.rows) > 0) =>
        LET summary == metrics_out.metrics["summary"]
            IsExecuted(r) == In(r, Text.Result) \in {Text.Pass, Text.Fail, Text.Blocked}
            IsSkipped(r) == In(r, Text.Result) = Text.Skipped
            IsNotExecuted(r) == In(r, Text.Result) = Text.NotExecuted
        IN  /\ summary.passed + summary.failed + summary.blocked = summary.executed
            /\ summary.executed + summary.skipped <= summary.total
            /\ summary.executed = NumRows(IsExecuted)
            /\ summary.skipped = NumRows(IsSkipped)
            /\ summary.total = summary.executed + summary.skipped + NumRows(IsNotExecuted)

\* a frame with a Blocked, a Skipped and a Not Executed row
C2_Witness ==
    /\ MetricsReturned
    /\ metrics_out.metrics["summary"].blocked = 1
    /\ metrics_out.metrics["summary"].skipped = 1
    /\ metrics_out.metrics["summary"].executed = 1
    /\ metrics_out.metrics["summary"].total = 3

ResultsOf(test_id) ==
    {In(r, Text.Result) : r \in {x \in InRows : In(x, Text.TestCaseID) = test_id}}

InFlakyList(test_id) ==
    \E i \in DOMAIN metrics_out.metrics["flaky"] :
        metrics_out.metrics["flaky"][i] = Str(test_id)

\* C3: a TestCaseID (a non-blank value of the column) is in the flaky list iff
\* the Result values of its rows include both Pass and Fail, whatever other
\* results (Blocked, Skipped) its rows have.
C3_FlakyIffPassAndFail ==
    (MetricsReturned /\ Len(handed_in.rows) > 0) =>
        /\ \A r \in InRows :
              In(r, Text.TestCaseID) # Text.Empty =>
                 (InFlakyList(In(r, Text.TestCaseID)) <=>
                     {Text.Pass, Text.Fail} \subseteq ResultsOf(In(r, Text.TestCaseID)))
        /\ \A i \in DOMAIN metrics_out.metrics["flaky"] :
              \E r \in InRows : Str(In(r, Text.TestCaseID)) = metrics_out.metrics["flaky"][i]

\* TC1 has a Pass, a Fail and a Blocked row and is reported flaky
C3_Witness ==
    /\ MetricsReturned
    /\ ResultsOf(Text.TC1) = {Text.Pass, Text.Fail, Text.Blocked}
    /\ InFlakyList(Text.TC1)

SeverityFromPriority(priority) ==
    CASE priority = Text.Highest -> Text.Critical
      [] priority = Text.High -> Text.Major
      [] priority = Text.Medium -> Text.Medium
      [] priority = Text.Low -> Text.Minor
      [] OTHER -> Text.Empty

AllSeverityEmpty == \A r \in InRows : In(r, Text.Severity) = Text.Empty

SomePriority == \E r \in InRows : In(r, Text.Priority) # Text.Empty

\* C4: the fallback fires exactly when every row has an empty Severity and
\* some row a non-empty Priority; then defects_by_severity counts each row
\* with a BugID under the severity mapped from its Priority; otherwise every
\* row is counted under its own Severity and none is derived from Priority.
C4_SeverityFallback ==
    (MetricsReturned /\ Len(handed_in.rows) > 0) =>
        LET by_severity == metrics_out.metrics["defects_by_severity"]
            Derived(level) ==
                Cardinality({r \in InRows :
                    /\ In(r, Text.BugID) # Text.Empty
                    /\ SeverityFromPriority(In(r, Text.Priority)) = level})
            Own(level) ==
                Cardinality({r \in InRows :
                    /\ In(r, Text.BugID) # Text.Empty
                    /\ In(r, Text.Severity) = level})
        IN  /\ metrics_out.fallback <=> (AllSeverityEmpty /\ SomePriority)
            /\ DOMAIN by_severity = SeverityLevels
            /\ metrics_out.fallback =>
                  \A level \in SeverityLevels : by_severity[level] = Derived(level.text)
            /\ ~metrics_out.fallback =>
                  \A level \in SeverityLevels : by_severity[level] = Own(level.text)

\* two defect rows without Severity, Priority Highest and High: Critical 1, Major 1
C4_Witness ==
    /\ MetricsReturned
    /\ metrics_out.fallback
    /\ Len(handed_in.rows) = 2
    /\ {In(r, Text.Priority) : r \in InRows} = {Text.Highest, Text.High}
    /\ \A r \in InRows : In(r, Text.BugID) # Text.Empty
    /\ metrics_out.metrics["defects_by_severity"] =
          (Str(Text.Critical) :> 1) @@ (Str(Text.Major) :> 1)
            @@ (Str(Text.Medium) :> 0) @@ (Str(Text.Minor) :> 0)

\* C5: compute_metrics leaves the caller's frame unchanged: after the call the
\* frame the run holds equals the frame that was handed in.
C5_CallerFrameUnchanged ==
    metrics_out.called => normalized_data = handed_in

(***************************************************************************)
(* Claims about normalize_columns (SpecNorm).                              *)
(***************************************************************************)
NormReturned == normalize_out.called /\ ~normalize_out.raised

\* the canonical column each label of the modelled files names (Notes names none)
NamedBy ==
    (Label.Status :> Text.Result) @@ (Label.result_ :> Text.Result)
      @@ (Label.TCID :> Text.TestCaseID) @@ (Label.SEVERITY :> Text.Severity)
      @@ (Label.priority :> Text.Priority) @@ (Label.Run :> Text.Run)
      @@ (Label.bug_id :> Text.BugID) @@ (Label.Module :> Text.Module)
      @@ (Label.module_ :> Text.Module) @@ (Label.Duration :> Text.Duration)
      @@ (Label.duration_ :> Text.Duration)

\* the input columns that name a canonical column
RawColumnsFor(name) ==
    {i \in DOMAIN raw_data.columns :
        /\ raw_data.columns[i] \in DOMAIN NamedBy
        /\ NamedBy[raw_data.columns[i]] = name}

\* what each raw value of the modelled files is to become
ExpectedResult ==
    (Str(Raw.PASS) :> Text.Pass) @@ (Str(Raw.fail) :> Text.Fail)
      @@ (Str(Raw.b) :> Text.Blocked) @@ (Str(Raw.Skipped) :> Text.Skipped)
      @@ (Str(Raw.pending) :> Text.NotExecuted) @@ (Str(Text.Empty) :> Text.NotExecuted)
      @@ (Str(Raw.xyz) :> Text.NotExecuted) @@ (NaN :> Text.NotExecuted)

ExpectedSeverity ==
    (Str(Raw.CRITICAL) :> Text.Critical) @@ (Str(Raw.min) :> Text.Minor)
      @@ (Str(Raw.two) :> Text.Major) @@ (IntCell(Text.One) :> Text.Critical)
      @@ (FloatCell(Raw.OnePointZero) :> Text.Empty) @@ (Str(Text.Empty) :> Text.Empty)
      @@ (Str(Raw.blocker) :> Text.Empty) @@ (NaN :> Text.Empty)

ExpectedPriority ==
    (Str(Raw.HIGH) :> Text.High) @@ (Str(Raw.low) :> Text.Low)
      @@ (Str(Text.One) :> Text.Highest) @@ (Str(Text.Empty) :> Text.Empty)
      @@ (Str(Raw.urgent) :> Text.Empty) @@ (NaN :> Text.Empty)

\* the value of a canonical column in row r of the output is the expected one
\* for the input value, or the default when the input has no such column
AsExpected(r, name, expected, default) ==
    IF RawColumnsFor(name) = {}
      THEN Val(normalized_data, r, name) = Str(default)
      ELSE \A i \in RawColumnsFor(name) :
              Val(normalized_data, r, name) = Str(expected[raw_data.rows[r][i]])

\* C9: after normalize_columns every row has Result in {Pass, Fail, Blocked,
\* Skipped, Not Executed}, Severity in {Critical, Major, Medium, Minor, ''}
\* and Priority in {Highest, High, Medium, Low, ''}; a value that is not in
\* the lookup table after lower-casing and trimming (a blank or absent one
\* included) becomes 'Not Executed', '' and '' respectively; and no value
\* aborts the batch (only two columns naming one canonical column do).
C9_ValuesNormalized ==
    normalize_out.called =>
        /\ normalize_out.raised =>
              \E name \in {NamedBy[l] : l \in DOMAIN NamedBy} :
                 Cardinality(RawColumnsFor(name)) > 1
        /\ ~normalize_out.raised =>
              /\ Len(normalized_data.rows) = Len(raw_data.rows)
              /\ \A r \in RowIdx(normalized_data) :
                    /\ Val(normalized_data, r, Text.Result).kind = "str"
                    /\ Val(normalized_data, r, Text.Result).text \in
                          {Text.Pass, Text.Fail, Text.Blocked, Text.Skipped, Text.NotExecuted}
                    /\ Val(normalized_data, r, Text.Severity).kind = "str"
                    /\ Val(normalized_data, r, Text.Severity).text \in
                          {Text.Critical, Text.Major, Text.Medium, Text.Minor, Text.Empty}
                    /\ Val(normalized_data, r, Text.Priority).kind = "str"
                    /\ Val(normalized_data, r, Text.Priority).text \in
                          {Text.Highest, Text.High, Text.Medium, Text.Low, Text.Empty}
                    /\ AsExpected(r, Text.Result, ExpectedResult, Text.NotExecuted)
                    /\ AsExpected(r, Text.Severity, ExpectedSeverity, Text.Empty)
                    /\ AsExpected(r, Text.Priority, ExpectedPriority, Text.Empty)

\* a file whose Status is unrecognised in one row and absent in the other, and
\* whose Severity is unrecognised: Not Executed twice, Severity ''
C9_Witness ==
    /\ NormReturned
    /\ Len(raw_data.rows) = 2
    /\ raw_data.columns = <<Label.Status, Label.SEVERITY>>
    /\ raw_data.rows[1] = <<Str(Raw.xyz), Str(Raw.blocker)>>
    /\ raw_data.rows[2] = <<NaN, Str(Raw.CRITICAL)>>
    /\ Val(normalized_data, 1, Text.Result) = Str(Text.NotExecuted)
    /\ Val(normalized_data, 2, Text.Result) = Str(Text.NotExecuted)
    /\ Val(normalized_data, 1, Text.Severity) = Str(Text.Empty)
    /\ Val(normalized_data, 2, Text.Severity) = Str(Text.Critical)

\* C10: the output of normalize_columns has exactly the ten canonical keys: a
\* column whose label maps to no canonical name is not in the output, and
\* its presence raises no error.
C10_OnlyCanonicalColumns ==
    /\ (normalize_out.called /\ \A name \in {NamedBy[l] : l \in DOMAIN NamedBy} :
                                   Cardinality(RawColumnsFor(name)) <= 1)
          => ~normalize_out.raised
    /\ NormReturned =>
          {normalized_data.columns[i] : i \in DOMAIN normalized_data.columns}
             = {CanonicalOrder[k] : k \in DOMAIN CanonicalOrder}

(***************************************************************************)
(* Claims about the columns and the Run and string fields of               *)
(* normalize_columns (SpecNorm).                                           *)
(***************************************************************************)
\* the canonical columns no label of the input names
AbsentColumns ==
    {CanonicalOrder[k] : k \in DOMAIN CanonicalOrder} \ {NamedBy[l] : l \in
        {raw_data.columns[i] : i \in DOMAIN raw_data.columns} \cap DOMAIN NamedBy}

\* the number one, as an integer or as a float (1 == 1.0)
NumberOne == {IntCell(<<"1">>), FloatCell(<<"1", ".", "0">>)}

AllCanonicalPresent ==
    \A k \in DOMAIN CanonicalOrder :
        \E i \in DOMAIN normalized_data.columns : normalized_data.columns[i] = CanonicalOrder[k]

StringFields == {string_columns[i] : i \in DOMAIN string_columns}

\* an input value that is absent (null), empty or whitespace only
NoValue(c) == c = NaN \/ (c.kind = "str" /\ \A i \in DOMAIN c.text : c.text[i] = " ")

\* C12: in each string field (TestCaseID, Description, Module, Tester, BugID)
\* a row whose input value is null normalizes to the same value as a row
\* whose input value is blank or whitespace only: the empty string, which
\* compute_metrics reads as no BugID, no Module, no TestCaseID.
C12_NullSameAsBlank ==
    NormReturned =>
        \A name \in StringFields : \A i \in RawColumnsFor(name) :
           \A r \in RowIdx(normalized_data) :
              NoValue(raw_data.rows[r][i]) =>
                 Val(normalized_data, r, name) = Str(Text.Empty)

\* a numeric cell whose value is a whole number that is not negative
\* (1.0 counts as the integer 1)
NonNegativeInteger(c) ==
    /\ c.kind \in {"int", "float"}
    /\ Head(c.text) # "-"
    /\ c.kind = "float" =>
          SubSeq(c.text, Len(c.text) - 1, Len(c.text)) = <<".", "0">>

\* the Run inputs of the modelled files that are absent, blank or no number
RunUnparseable == {NaN, Str(Text.Empty), Str(Raw.x)}

\* C13: after normalize_columns Run is a non-negative integer in every row,
\* and it is 1 in every row whose input Run is absent, blank or not
\* parseable as a number.
C13_RunNonNegativeInteger ==
    NormReturned =>
        \A r \in RowIdx(normalized_data) :
           /\ NonNegativeInteger(Val(normalized_data, r, Text.Run))
           /\ (\A i \in RawColumnsFor(Text.Run) : raw_data.rows[r][i] \in RunUnparseable)
                 => Val(normalized_data, r, Text.Run) \in NumberOne

(***************************************************************************)
(* normalize_columns applied to its own output and to canonical input.     *)
(***************************************************************************)
\* already-canonical rows: canonical values in every field
CanonicalSamples ==
    { CanonicalRow(Text.Login, Text.TC1, res, b, pri, sev, Text.Amy) :
        res \in {Text.Pass, Text.Skipped, Text.NotExecuted},
        b \in {Text.Empty, Text.BUG1},
        pri \in {Text.Empty, Text.High},
        sev \in {Text.Empty, Text.Critical} }

CanonicalInputs == FramesOf(CanonicalSamples, MaxRawRows)

InitIdem ==
    /\ raw_data \in RawFrames \cup CanonicalInputs
    /\ normalize_out = NoNormalize
    /\ normalized_data = NoFrame
    /\ handed_in = NoFrame
    /\ metrics_out = NoMetrics
    /\ quality_gates = EmptyDict
    /\ gate = NoCall
    /\ earlier_metrics = <<>>
    /\ run = NoRun

\* the output of normalize_columns is handed to normalize_columns once more
NormalizeAgain ==
    /\ NormReturned
    /\ handed_in = NoFrame
    /\ LET res == normalize_columns(normalized_data)
       IN  /\ normalize_out' = [called |-> TRUE, raised |-> res.raised]
           /\ normalized_data' = res.df
    /\ handed_in' = normalized_data
    /\ UNCHANGED <<raw_data, metrics_out, quality_gates, gate, earlier_metrics, run>>

NextIdem == Normalize \/ NormalizeAgain

SpecIdem == InitIdem /\ [][NextIdem]_vars

NormalizedTwice == normalize_out.called /\ handed_in # NoFrame

\* C14: normalize_columns is idempotent: applied to its own output, or to an
\* already-canonical input, it returns the same column names and the same
\* value in every field of every row.
C14_Idempotent ==
    /\ NormalizedTwice => (~normalize_out.raised /\ normalized_data = handed_in)
    /\ (normalize_out.called /\ raw_data \in CanonicalInputs) =>
          (~normalize_out.raised /\ normalized_data = raw_data)

\* a file with padded, unrecognised and null values, normalized twice
C14_Witness ==
    /\ NormalizedTwice
    /\ raw_data.columns = <<Label.Status, Label.SEVERITY>>
    /\ raw_data.rows = << <<Str(Raw.PASS), Str(Raw.blocker)>>, <<NaN, Str(Raw.CRITICAL)>> >>
    /\ normalized_data = handed_in
    /\ Val(normalized_data, 1, Text.Result) = Str(Text.Pass)
    /\ Val(normalized_data, 2, Text.Result) = Str(Text.NotExecuted)
    /\ Val(normalized_data, 2, Text.Severity) = Str(Text.Critical)

(***************************************************************************)
(* Claims about the column aliases (SpecNorm).                             *)
(***************************************************************************)
\* what each raw string value of the modelled files is to become
ExpectedString ==
    (Str(Raw.TC1pad) :> Text.TC1) @@ (Str(Text.TC1) :> Text.TC1) @@ (Str(Text.TC2) :> Text.TC2)
      @@ (Str(Text.Empty) :> Text.Empty) @@ (Str(Raw.blank) :> Text.Empty)
      @@ (NaN :> <<"n", "a", "n">>)
      @@ (Str(Text.Login) :> Text.Login) @@ (Str(Text.Checkout) :> Text.Checkout)

\* the number each raw Run value of the modelled files is to become, written
\* as an integer or as a float
ExpectedRun ==
    (Str(Raw.two) :> {IntCell(<<"2">>), FloatCell(<<"2", ".", "0">>)})
      @@ (IntCell(Raw.two) :> {IntCell(<<"2">>), FloatCell(<<"2", ".", "0">>)})
      @@ (Str(Raw.three) :> {IntCell(<<"3">>), FloatCell(<<"3", ".", "0">>)})
      @@ (Str(Raw.x) :> NumberOne) @@ (Str(Text.Empty) :> NumberOne) @@ (NaN :> NumberOne)
      @@ (Str(Raw.minus1) :> {IntCell(<<"-", "1">>), FloatCell(<<"-", "1", ".", "0">>)})
      @@ (Str(Raw.twohalf) :> {FloatCell(<<"2", ".", "5">>)})

\* the values a raw cell of the column named name may normalize to
ExpectedCells(name, c) ==
    CASE name = Text.Result -> {Str(ExpectedResult[c])}
      [] name = Text.Severity -> {Str(ExpectedSeverity[c])}
      [] name = Text.Priority -> {Str(ExpectedPriority[c])}
      [] name = Text.Run -> ExpectedRun[c]
      [] name \in StringFields -> {Str(ExpectedString[c])}
      [] OTHER -> {c}

\* C15: an input column whose label, trimmed and lower-cased, is a key of the
\* alias table is in the output under the canonical name, whatever the case
\* of the label; the rows keep their number and order, and each row keeps
\* that column's value, up to the value normalization.
C15_AliasToCanonical ==
    normalize_out.called =>
        /\ normalize_out.raised =>
              \E name \in {NamedBy[l] : l \in DOMAIN NamedBy} :
                 Cardinality(RawColumnsFor(name)) > 1
        /\ ~normalize_out.raised =>
              /\ Len(normalized_data.rows) = Len(raw_data.rows)
              /\ \A i \in DOMAIN raw_data.columns :
                    raw_data.columns[i] \in DOMAIN NamedBy =>
                       /\ normalized_data.columns[i] = NamedBy[raw_data.columns[i]]
                       /\ \A r \in RowIdx(raw_data) :
                             normalized_data.rows[r][i] \in
                                ExpectedCells(NamedBy[raw_data.columns[i]], raw_data.rows[r][i])

\* a file with the columns TCID and Notes: TCID is TestCaseID in the output,
\* with TC2 still before TC1
C15_Witness ==
    /\ NormReturned
    /\ raw_data.columns = <<Label.TCID, Label.Notes>>
    /\ raw_data.rows = << <<Str(Text.TC2), Str(Raw.n1)>>, <<Str(Text.TC1), Str(Text.Empty)>> >>
    /\ normalized_data.columns[1] = Text.TestCaseID
    /\ Val(normalized_data, 1, Text.TestCaseID) = Str(Text.TC2)
    /\ Val(normalized_data, 2, Text.TestCaseID) = Str(Text.TC1)

(***************************************************************************)
(* Further claims about compute_metrics (SpecSummary, SpecDefects,         *)
(* SpecModules, SpecDensity).                                              *)
(***************************************************************************)
\* C16: summary.pass_pct is 100 * passed / executed rounded to two decimals
\* when executed > 0 and 0.0 whenever executed = 0, whatever the number of
\* rows (an empty frame included); hence 0 <= pass_pct <= 100.  pass_pct is
\* in hundredths of a percent.
C16_PassPct ==
    MetricsReturned =>
        LET summary == metrics_out.metrics["summary"]
            IsExecuted(r) == In(r, Text.Result) \in {Text.Pass, Text.Fail, Text.Blocked}
            IsPassed(r) == In(r, Text.Result) = Text.Pass
            executed == NumRows(IsExecuted)
            passed == NumRows(IsPassed)
            error == summary.pass_pct * executed - 10000 * passed
        IN  /\ executed > 0 => (2 * error <= executed /\ -2 * error <= executed)
            /\ executed = 0 => summary.pass_pct = 0
            /\ 0 <= summary.pass_pct /\ summary.pass_pct <= 10000

\* two of three executed rows passed: 66.67
C16_Witness ==
    /\ MetricsReturned
    /\ metrics_out.metrics["summary"].passed = 2
    /\ metrics_out.metrics["summary"].failed = 1
    /\ metrics_out.metrics["summary"].executed = 3
    /\ metrics_out.metrics["summary"].pass_pct = 6667

\* the rows handed in that have a BugID and the value level in a field
CountDefects(field, level) ==
    Cardinality({r \in InRows : In(r, Text.BugID) # Text.Empty /\ In(r, field) = level})

\* the rows handed in that have a BugID and a Priority that maps to level
CountDerived(level) ==
    Cardinality({r \in InRows :
        In(r, Text.BugID) # Text.Empty /\ SeverityFromPriority(In(r, Text.Priority)) = level})

\* C17 as stated: in every bundle (zero rows and no defects included)
\* defects_by_severity has exactly the keys Critical, Major, Medium, Minor and
\* defects_by_priority exactly Highest, High, Medium, Low, each value being
\* the number of rows with a non-empty BugID whose Severity (Priority)
\* is that category.
C17_DefectCountsOwnField ==
    MetricsReturned =>
        LET by_severity == metrics_out.metrics["defects_by_severity"]
            by_priority == metrics_out.metrics["defects_by_priority"]
        IN  /\ DOMAIN by_severity = SeverityLevels
            /\ DOMAIN by_priority = PriorityLevels
            /\ \A level \in SeverityLevels :
                  by_severity[level] = CountDefects(Text.Severity, level.text)
            /\ \A level \in PriorityLevels :
                  by_priority[level] = CountDefects(Text.Priority, level.text)

\* C17, amended: as above, except that when the severity fallback fires (every
\* Severity empty, some Priority not) a defects_by_severity value is the
\* number of rows with a non-empty BugID whose Priority maps to the category.
C17_DefectCountsDense ==
    MetricsReturned =>
        LET by_severity == metrics_out.metrics["defects_by_severity"]
            by_priority == metrics_out.metrics["defects_by_priority"]
        IN  /\ DOMAIN by_severity = SeverityLevels
            /\ DOMAIN by_priority = PriorityLevels
            /\ \A level \in SeverityLevels :
                  by_severity[level] =
                     IF AllSeverityEmpty /\ SomePriority
                       THEN CountDerived(level.text)
                       ELSE CountDefects(Text.Severity, level.text)
            /\ \A level \in PriorityLevels :
                  by_priority[level] = CountDefects(Text.Priority, level.text)

\* a Critical row without a BugID beside a Minor defect with Priority Low: the
\* first is not counted, the other categories are present with 0
C17_Witness ==
    /\ MetricsReturned
    /\ Len(handed_in.rows) = 2
    /\ In(1, Text.BugID) = Text.Empty /\ In(1, Text.Severity) = Text.Critical
    /\ In(2, Text.BugID) = Text.BUG1 /\ In(2, Text.Severity) = Text.Minor
    /\ In(2, Text.Priority) = Text.Low
    /\ metrics_out.metrics["defects_by_severity"] =
          (Str(Text.Critical) :> 0) @@ (Str(Text.Major) :> 0)
            @@ (Str(Text.Medium) :> 0) @@ (Str(Text.Minor) :> 1)
    /\ metrics_out.metrics["defects_by_priority"][Str(Text.Low)] = 1
    /\ metrics_out.metrics["defects_by_priority"][Str(Text.Highest)] = 0

(***************************************************************************)
(* compute_metrics on frames of several modules.                           *)
(***************************************************************************)
MaxModuleRows == 3

Modules == {Text.Empty, Text.Login, Text.Checkout}

\* rows that differ in Module and Result
ModuleResultRows ==
    { CanonicalRow(m, Text.TC1, res, Text.Empty, Text.Empty, Text.Empty, Text.Amy) :
        m \in Modules, res \in {Text.Pass, Text.Fail, Text.Blocked} }

InitModules ==
    /\ raw_data = NoFrame
    /\ normalize_out = NoNormalize
    /\ normalized_data \in FramesOf(ModuleResultRows, MaxModuleRows)
    /\ handed_in = NoFrame
    /\ metrics_out = NoMetrics
    /\ quality_gates = EmptyDict
    /\ gate = NoCall
    /\ earlier_metrics = <<>>
    /\ run = NoRun

SpecModules == InitModules /\ [][NextMetrics]_vars

\* the rows handed in that have Module m and Result Fail
FailingRows(m) == {r \in InRows : In(r, Text.Module) = m /\ In(r, Text.Result) = Text.Fail}

\* C18: fail_by_module has a key for module m if and only if at least one row
\* with Module m has Result Fail, and its value is the number of such rows; a
\* module with no failing row is absent rather than present with 0.
C18_FailByModuleSparse ==
    MetricsReturned =>
        LET fail_by_module == metrics_out.metrics["fail_by_module"]
        IN  /\ \A m \in Modules : Str(m) \in DOMAIN fail_by_module <=> FailingRows(m) # {}
            /\ \A key \in DOMAIN fail_by_module :
                  /\ key.kind = "str" /\ key.text \in Modules
                  /\ fail_by_module[key] = Cardinality(FailingRows(key.text))
                  /\ fail_by_module[key] > 0

\* Login fails twice, Checkout only passes: Login 2, no key for Checkout
C18_Witness ==
    /\ MetricsReturned
    /\ Len(handed_in.rows) = 3
    /\ \E r \in InRows : In(r, Text.Module) = Text.Checkout /\ In(r, Text.Result) = Text.Pass
    /\ Cardinality(FailingRows(Text.Login)) = 2
    /\ metrics_out.metrics["fail_by_module"] = (Str(Text.Login) :> 2)

MaxDensityRows == 4

\* rows that differ in Module and BugID; every row carries a Severity
ModuleBugRows ==
    { CanonicalRow(m, Text.TC1, Text.Fail, b, Text.Empty, Text.Critical, Text.Amy) :
        m \in Modules, b \in {Text.Empty, Text.BUG1, Text.BUG2} }

InitDensity ==
    /\ raw_data = NoFrame
    /\ normalize_out = NoNormalize
    /\ normalized_data \in FramesOf(ModuleBugRows, MaxDensityRows)
    /\ handed_in = NoFrame
    /\ metrics_out = NoMetrics
    /\ quality_gates = EmptyDict
    /\ gate = NoCall
    /\ earlier_metrics = <<>>
    /\ run = NoRun

SpecDensity == InitDensity /\ [][NextMetrics]_vars

\* the rows handed in of module m, and the distinct BugIDs among them
RowsOfModule(m) == {r \in InRows : In(r, Text.Module) = m}

BugsOfModule(m) == {In(r, Text.BugID) : r \in RowsOfModule(m)} \ {Text.Empty}

BugRowsOfModule(m) == {r \in RowsOfModule(m) : In(r, Text.BugID) # Text.Empty}

\* the bug rows of module m whose Priority maps to the severity level
DerivedInModule(m, level) ==
    Cardinality({r \in BugRowsOfModule(m) : SeverityFromPriority(In(r, Text.Priority)) = level})

\* C20: in the density entry of a module none of whose bug rows carries a
\* Severity, the critical / major / medium / minor sub-counts are derived from
\* those rows' Priority (Highest, High, Medium, Low); when they carry neither
\* Severity nor Priority, all of the module's defects are counted under medium.
C20_ModuleSeverityFallback ==
    MetricsReturned =>
        LET density == metrics_out.metrics["density"]
        IN  \A key \in DOMAIN density :
               LET m == key.text
                   entry == density[key]
                   no_severity ==
                       \A r \in BugRowsOfModule(m) : In(r, Text.Severity) = Text.Empty
                   no_priority ==
                       \A r \in BugRowsOfModule(m) : In(r, Text.Priority) = Text.Empty
               IN  /\ (BugRowsOfModule(m) # {} /\ no_severity /\ ~no_priority) =>
                          /\ entry.critical = DerivedInModule(m, Text.Critical)
                          /\ entry.major = DerivedInModule(m, Text.Major)
                          /\ entry.medium = DerivedInModule(m, Text.Medium)
                          /\ entry.minor = DerivedInModule(m, Text.Minor)
                   /\ (BugRowsOfModule(m) # {} /\ no_severity /\ no_priority) =>
                          /\ entry.medium = entry.total
                          /\ entry.critical = 0 /\ entry.major = 0 /\ entry.minor = 0

(***************************************************************************)
(* Claims about key_bugs (SpecDensity, SpecDefects).                       *)
(***************************************************************************)
\* the distinct non-empty BugIDs of the rows handed in
BugsHandedIn == {In(r, Text.BugID) : r \in InRows} \ {Text.Empty}

\* the first row handed in that carries the BugID b
FirstRowOf(b) ==
    CHOOSE r \in InRows :
        /\ In(r, Text.BugID) = b
        /\ \A x \in InRows : In(x, Text.BugID) = b => r <= x

\* C21: key_bugs has exactly one entry for each distinct non-empty BugID of the
\* input (its length is the number of distinct bugs), in order of first
\* occurrence, each entry's module taken from the first row with that BugID.
C21_KeyBugsOnePerBugID ==
    MetricsReturned =>
        LET key_bugs == metrics_out.metrics["key_bugs"]
        IN  /\ Len(key_bugs) = Cardinality(BugsHandedIn)
            /\ {key_bugs[i].id : i \in DOMAIN key_bugs} = {Str(b) : b \in BugsHandedIn}
            /\ \A i, j \in DOMAIN key_bugs :
                  i < j => FirstRowOf(key_bugs[i].id.text) < FirstRowOf(key_bugs[j].id.text)
            /\ \A i \in DOMAIN key_bugs :
                  key_bugs[i].module = Str(In(FirstRowOf(key_bugs[i].id.text), Text.Module))

\* the row handed in an entry of key_bugs is built from: the first row with that
\* BugID among the rows that carry a Module
SourceRowOf(entry) ==
    CHOOSE r \in InRows :
        /\ Str(In(r, Text.BugID)) = entry.id /\ In(r, Text.Module) # Text.Empty
        /\ \A x \in InRows :
              (Str(In(x, Text.BugID)) = entry.id /\ In(x, Text.Module) # Text.Empty) => r <= x

\* the value of a field, or the default when it is blank
OrDefault(value, default) == IF value = Text.Empty THEN Str(default) ELSE Str(value)

\* C22: every key_bugs entry has status 'Open'; its severity is 'Medium' when
\* the row's Severity is blank, its priority 'Medium' when the row's Priority
\* is blank, its assigned_to 'N/A' when the row's Tester is blank; otherwise
\* it carries the row's own Severity, Priority and Tester.
C22_KeyBugDefaults ==
    MetricsReturned =>
        LET key_bugs == metrics_out.metrics["key_bugs"]
        IN  \A i \in DOMAIN key_bugs :
               LET r == SourceRowOf(key_bugs[i])
               IN  /\ key_bugs[i].status = Str(Text.Open)
                   /\ key_bugs[i].severity = OrDefault(In(r, Text.Severity), Text.Medium)
                   /\ key_bugs[i].priority = OrDefault(In(r, Text.Priority), Text.Medium)
                   /\ key_bugs[i].assigned_to = OrDefault(In(r, Text.Tester), Text.NA)

(***************************************************************************)
(* Further claims about the quality gate (SpecGate).                       *)
(***************************************************************************)
\* C23: the evaluation details have criteria_met = false if and only if the
\* recommendation is REJECTED, carry the three input metrics unchanged, name
\* the profile that was evaluated ('default' when the requested name is not
\* loaded) and carry the release thresholds of that same profile.
C23_EvaluationDetails ==
    Returned =>
        LET cfg == quality_gates[ProfileUsed]
        IN  /\ gate.details.criteria_met = FALSE <=> gate.recommendation = "REJECTED"
            /\ gate.details.pass_rate = gate.pass_rate
            /\ gate.details.critical_defects = gate.critical_defects
            /\ gate.details.major_defects = gate.major_defects
            /\ gate.details.quality_gate_used = ProfileUsed
            /\ gate.details.release_thresholds =
                  (IF "release_thresholds" \in DOMAIN cfg
                     THEN cfg["release_thresholds"] ELSE EmptyDict)

\* 'nightly' is not loaded, 'default' and 'strict' are: the details name
\* 'default' and carry its thresholds, which the input fails
C23_Witness ==
    /\ Returned
    /\ gate.requested = "nightly"
    /\ DOMAIN quality_gates = {"default", "strict"}
    /\ gate.details.quality_gate_used = "default"
    /\ "release_thresholds" \in DOMAIN quality_gates["default"]
    /\ gate.details.release_thresholds = quality_gates["default"]["release_thresholds"]
    /\ quality_gates["default"]["release_thresholds"] # StrictConfig["release_thresholds"]
    /\ gate.recommendation = "REJECTED"
    /\ gate.details.criteria_met = FALSE

(***************************************************************************)
(* One run of main() (main.py 463-680): validate, read and normalize, the  *)
(* optional crew, compute_metrics, the quality gate, the report.           *)
(***************************************************************************)
MaxPipelineRows == 2

\* the source file: present and parseable, absent, or present and not parseable
FileStates == {"readable", "missing", "unparseable"}

\* what the crew step comes to when it is not skipped
CrewOutcomes ==
    {"completed", "no_crew", "build_failed", "ingestion_failed", "analysis_failed",
     "report_failed", "not_json"}

CrewFailures ==
    {"build_failed", "ingestion_failed", "analysis_failed", "report_failed", "not_json"}

PipelineLayouts ==
    { << ColumnSpec(Label.Status, {Str(Raw.PASS), Str(Raw.fail)}),
         ColumnSpec(Label.bug_id, {Str(Text.Empty), Str(Text.BUG1)}),
         ColumnSpec(Label.SEVERITY, {Str(Raw.CRITICAL)}) >>,
      << ColumnSpec(Label.Status, {Str(Raw.PASS), Str(Raw.fail)}),
         ColumnSpec(Label.result_, {Str(Raw.PASS), Str(Raw.b)}) >> }

PipelineFrames ==
    UNION { { [columns |-> [i \in DOMAIN layout |-> layout[i].label], rows |-> rs] :
                rs \in UNION { [1 .. k -> RowsOfLayout(layout)] : k \in 0 .. MaxPipelineRows } } :
            layout \in PipelineLayouts }

\* quality_gates.yaml when it is there: a default and a strict profile
QualityGatesYaml ==
    [n \in {"default", "strict"} |->
        IF n = "strict" THEN StrictConfig
        ELSE [k \in {"name", "release_thresholds"} |->
                IF k = "name" THEN "Default Quality Gate"
                ELSE [t \in {"approved", "conditional"} |->
                        IF t = "approved" THEN Tier(ThresholdKeys, 9500, 0, 1)
                        ELSE Tier(ThresholdKeys, 8000, 1, 1)]]]

\* ConfigManager.load_config: a missing file is logged and {} is returned;
\* nothing is raised
load_config(exists) ==
    [raised |-> FALSE, config |-> IF exists THEN QualityGatesYaml ELSE EmptyDict]

\* a run that computes the metrics from what the crew ingested, when it did
MetricsSource_CrewFirst(normalized, crew_metadata) ==
    IF crew_metadata THEN NoFrame ELSE normalized

\* main.py 516: compute_metrics is given normalized_data; crew_metadata is in
\* scope and is not used
MetricsSource(normalized, crew_metadata) == normalized

\* main.py 618-620: the three numbers handed to the evaluator
GatePassRate(metrics) == Get(Get(metrics, "summary", EmptyDict), "pass_pct", 0)

GateDefects(metrics, level) == Get(Get(metrics, "defects_by_severity", EmptyDict), Str(level), 0)

Exit(code) == [run EXCEPT !.pc = "exit", !.exit_code = code]

InitPipeline ==
    /\ raw_data = NoFrame
    /\ normalize_out = NoNormalize
    /\ normalized_data = NoFrame
    /\ handed_in = NoFrame
    /\ metrics_out = NoMetrics
    /\ quality_gates = EmptyDict
    /\ gate = NoCall
    /\ earlier_metrics = <<>>
    /\ \E key \in BOOLEAN, file \in FileStates, content \in PipelineFrames,
          skip \in BOOLEAN, exists \in BOOLEAN, g \in {"default", "strict"} :
          run = [pc |-> "validate", api_key |-> key, file |-> file, content |-> content,
                 skip_crew |-> skip, config_exists |-> exists, quality_gate |-> g,
                 crew |-> "", crew_metadata |-> FALSE, load_raised |-> FALSE,
                 exit_code |-> -1, report |-> NoReport]

\* main.py 467-468: validate_environment and validate_file call sys.exit(1)
Validate ==
    /\ run.pc = "validate"
    /\ run' = IF ~run.api_key \/ run.file = "missing"
                THEN Exit(1) ELSE [run EXCEPT !.pc = "read"]
    /\ UNCHANGED <<raw_data, normalize_out, normalized_data, handed_in, metrics_out,
                   quality_gates, gate, earlier_metrics>>

\* main.py 482-483: read_execution_file raises ValueError for a file it cannot
\* parse; an exception of either call ends the run at line 675 with 1
ReadAndNormalize ==
    /\ run.pc = "read"
    /\ IF run.file = "unparseable"
         THEN /\ run' = Exit(1)
              /\ UNCHANGED <<raw_data, normalize_out, normalized_data>>
         ELSE LET res == normalize_columns(run.content)
              IN  /\ raw_data' = run.content
                  /\ normalize_out' = [called |-> TRUE, raised |-> res.raised]
                  /\ normalized_data' = res.df
                  /\ run' = IF res.raised THEN Exit(1) ELSE [run EXCEPT !.pc = "crew"]
    /\ UNCHANGED <<handed_in, metrics_out, quality_gates, gate, earlier_metrics>>

\* main.py 489-512: every exception of build_crew and run_crew is caught and
\* logged, and crew_metadata stays None
RunCrew ==
    /\ run.pc = "crew"
    /\ \E outcome \in (IF run.skip_crew THEN {"skipped"} ELSE CrewOutcomes) :
          run' = [run EXCEPT !.pc = "metrics", !.crew = outcome,
                             !.crew_metadata = (outcome = "completed")]
    /\ UNCHANGED <<raw_data, normalize_out, normalized_data, handed_in, metrics_out,
                   quality_gates, gate, earlier_metrics>>

\* main.py 516
PipelineMetrics ==
    /\ run.pc = "metrics"
    /\ LET given == MetricsSource(normalized_data, run.crew_metadata)
           res == compute_metrics(given)
       IN  /\ handed_in' = given
           /\ metrics_out' = res.out
           /\ normalized_data' = res.df
           /\ run' = IF res.out.raised THEN Exit(1) ELSE [run EXCEPT !.pc = "evaluate"]
    /\ UNCHANGED <<raw_data, normalize_out, quality_gates, gate, earlier_metrics>>

\* main.py 616-626: the evaluator loads the profiles and evaluates
PipelineEvaluate ==
    /\ run.pc = "evaluate"
    /\ LET loaded == load_config(run.config_exists)
           res == evaluate_release_recommendation(loaded.config,
                     GatePassRate(metrics_out.metrics),
                     GateDefects(metrics_out.metrics, Text.Critical),
                     GateDefects(metrics_out.metrics, Text.Major),
                     run.quality_gate)
       IN  /\ quality_gates' = loaded.config
           /\ gate' = res
           /\ run' = IF loaded.raised \/ res.raised
                       THEN [Exit(1) EXCEPT !.load_raised = loaded.raised]
                       ELSE [run EXCEPT !.pc = "render"]
    /\ UNCHANGED <<raw_data, normalize_out, normalized_data, handed_in, metrics_out,
                   earlier_metrics>>

\* main.py 629-669: the context takes the recommendation and, when the crew
\* returned something, its findings; the report is rendered and main returns 0
Render ==
    /\ run.pc = "render"
    /\ run' = [Exit(0) EXCEPT !.report =
                  [rendered |-> TRUE, release_recommendation |-> gate.recommendation,
                   crew_findings |-> run.crew_metadata]]
    /\ UNCHANGED <<raw_data, normalize_out, normalized_data, handed_in, metrics_out,
                   quality_gates, gate, earlier_metrics>>

NextPipeline ==
    \/ Validate
    \/ ReadAndNormalize
    \/ RunCrew
    \/ PipelineMetrics
    \/ PipelineEvaluate
    \/ Render

SpecPipeline == InitPipeline /\ [][NextPipeline]_vars

(***************************************************************************)
(* Claims about the pipeline run (checked under SpecPipeline).             *)
(***************************************************************************)
Ended == run.pc = "exit"

NarrativeUnavailable ==
    \/ ~run.api_key
    \/ run.crew \in CrewFailures \cup {"no_crew"}

CoreStepsSucceed ==
    /\ run.file = "readable"
    /\ ~normalize_columns(run.content).raised
    /\ run.config_exists

\* C24: a run in which the narrative generator is unavailable or fails (no
\* API key, no crew, a crew step or its JSON failing) still computes the
\* metrics, evaluates the gate, renders the report and ends with 0, as long
\* as the file, the normalization and the configuration are in order.
C24_RunSurvivesNarrativeFailure ==
    (Ended /\ NarrativeUnavailable /\ CoreStepsSucceed) =>
        /\ run.exit_code = 0
        /\ metrics_out.called /\ ~metrics_out.raised
        /\ gate.called /\ ~gate.raised
        /\ run.report.rendered

StructuralFailure == run.file # "readable" \/ ~run.config_exists

ConfigLoaded == gate.called

\* the run-level half of C25: a run with a structural failure ends with 1
\* and has neither a recommendation nor a report
AbortsWithoutReport ==
    (Ended /\ StructuralFailure) =>
        /\ run.exit_code = 1
        /\ gate.recommendation = ""
        /\ ~run.report.rendered

\* C25: a missing configuration file, or a missing or unreadable source file,
\* reaches the caller as a failure and never as an empty or default result,
\* and the run ends without a recommendation and without a report.
C25_StructuralFailureSurfaced ==
    /\ AbortsWithoutReport
    /\ (ConfigLoaded /\ ~run.config_exists) =>
          (run.load_raised /\ quality_gates # EmptyDict)

\* what the file and the command line alone determine
BundleOfFile == compute_metrics(normalize_columns(run.content).df).out.metrics

RecommendationOfFile ==
    evaluate_release_recommendation(load_config(run.config_exists).config,
        GatePassRate(BundleOfFile), GateDefects(BundleOfFile, Text.Critical),
        GateDefects(BundleOfFile, Text.Major), run.quality_gate).recommendation

\* C26: the crew does not feed back: whatever the crew step came to
\* (completed, skipped, no crew, any failure), the metrics bundle and the
\* recommendation of the run are the ones the file, the profile and the
\* configuration determine, so two runs that differ only in the crew step
\* have the same bundle and the same recommendation.
C26_NoFeedbackFromCrew ==
    /\ (metrics_out.called /\ ~metrics_out.raised) => metrics_out.metrics = BundleOfFile
    /\ gate.called => gate.recommendation = RecommendationOfFile

\* a run whose crew completed and reached the report, with one test passed
\* and one failed with a critical bug
C26_Witness ==
    /\ Ended /\ run.exit_code = 0
    /\ run.crew = "completed" /\ run.report.crew_findings
    /\ metrics_out.metrics["summary"].total = 2
    /\ GateDefects(metrics_out.metrics, Text.Critical) = 1
    /\ run.report.release_recommendation = "REJECTED"

(***************************************************************************)
(* compute_metrics called again and again on the frame the caller holds.   *)
(***************************************************************************)
MaxCalls == 3

\* one more call on the same DataFrame object, which an earlier call may have
\* written to (tools.py 381)
ComputeMetricsAgain ==
    /\ metrics_out.called /\ ~metrics_out.raised
    /\ Len(earlier_metrics) + 1 < MaxCalls
    /\ LET res == compute_metrics(normalized_data)
       IN  /\ metrics_out' = res.out
           /\ normalized_data' = res.df
    /\ handed_in' = normalized_data
    /\ earlier_metrics' = Append(earlier_metrics, metrics_out.metrics)
    /\ UNCHANGED <<raw_data, normalize_out, quality_gates, gate, run>>

NextRepeat == ComputeMetrics \/ ComputeMetricsAgain

SpecRepeat == InitDefects /\ [][NextRepeat]_vars

\* C27: every call of compute_metrics on the same dataset returns the bundle
\* the earlier calls returned, also when the first call derived Severity from
\* Priority.
C27_Repeatable ==
    (metrics_out.called /\ ~metrics_out.raised) =>
        \A i \in DOMAIN earlier_metrics : earlier_metrics[i] = metrics_out.metrics

\* the third call on a frame whose first call took the severity fallback: no
\* input row has the Severity Major, so a Major row was derived from Priority
C27_Witness ==
    /\ Len(earlier_metrics) = 2
    /\ metrics_out.called /\ ~metrics_out.raised /\ ~metrics_out.fallback
    /\ \E r \in RowIdx(normalized_data) :
          Val(normalized_data, r, Text.Severity) = Str(Text.Major)
    /\ metrics_out.metrics["defects_by_severity"][Str(Text.Major)] > 0
    /\ earlier_metrics[1] = metrics_out.metrics

\* REJECTED < CONDITIONAL < APPROVED
Rank(recommendation) ==
    CASE recommendation = "APPROVED" -> 2
      [] recommendation = "CONDITIONAL" -> 1
      [] OTHER -> 0

\* the inputs at least as good as the evaluated ones in every respect
AtLeastAsGood ==
    { in \in [pass_rate : PassRates, critical_defects : DefectCounts,
              major_defects : DefectCounts] :
        /\ in.pass_rate >= gate.pass_rate
        /\ in.critical_defects <= gate.critical_defects
        /\ in.major_defects <= gate.major_defects }

\* C28: for every profile, inputs with a pass rate at least as high and
\* critical and major counts at most as high never get a worse recommendation.
C28_GateMonotone ==
    Returned =>
        \A in \in AtLeastAsGood :
            Rank(evaluate_release_recommendation(quality_gates, in.pass_rate,
                    in.critical_defects, in.major_defects, gate.requested).recommendation)
              >= Rank(gate.recommendation)

\* a CONDITIONAL evaluation that a better input turns into APPROVED
C28_Witness ==
    /\ Returned
    /\ gate.recommendation = "CONDITIONAL"
    /\ \E in \in AtLeastAsGood :
          evaluate_release_recommendation(quality_gates, in.pass_rate,
              in.critical_defects, in.major_defects, gate.requested).recommendation
            = "APPROVED"

\* the canonical names that two or more labels of the input name
NamedTwice ==
    { name \in {NamedBy[l] : l \in DOMAIN NamedBy} : Cardinality(RawColumnsFor(name)) >= 2 }

\* C29: an input in which two or more labels name the same canonical column
\* is normalized without an error, and the output has that column once.
C29_DuplicateLabelsOnce ==
    (normalize_out.called /\ NamedTwice # {}) =>
        /\ ~normalize_out.raised
        /\ \A name \in NamedTwice : TimesPresent(normalized_data, name) = 1

\* C30: in every density entry of a module whose bug rows all carry a
\* Severity, the critical, major, medium and minor sub-counts add up to the
\* entry's total, also when one BugID is on several rows.
C30_SubCountsSumToTotal ==
    MetricsReturned =>
        LET density == metrics_out.metrics["density"]
        IN  \A key \in DOMAIN density :
              (\A r \in BugRowsOfModule(key.text) : In(r, Text.Severity) # Text.Empty) =>
                  density[key].critical + density[key].major + density[key].medium
                    + density[key].minor = density[key].total

====
